---------------------------- MODULE Spec2Model ----------------------------
(***************************************************************************)
(* Scrape orchestration engine of manamesh's card scraper:                 *)
(*   - Scraper._fetch_cards   (card resolver, fallback chain)              *)
(*   - StateTracker           (lazy load, reset, save, delete)             *)
(*   - ImageDownloader        (retry / backoff, existence skip)            *)
(*   - Scraper.run            (pipeline controller)                        *)
(* Each component has its own specification over the shared variables:     *)
(* SpecResolver, SpecLoad, SpecTracker, SpecDL and Spec (the pipeline).    *)
(***************************************************************************)
EXTENDS Integers, Sequences, FiniteSets, TLC

VARIABLES
    adapters,   \* Scraper._adapters: loaded adapter names, priority order
    fset,       \* _fetch_cards: the set_id argument
    fidx,       \* _fetch_cards: index of the adapter the loop is at
    flog,       \* get_cards calls made so far: <<[adapter, resp]>>
    fres,       \* _fetch_cards: the returned list
    fpc,        \* _fetch_cards: "loop" | "done"
    st,         \* StateTracker._state: [loaded, sets]; loaded = FALSE is None
    file,       \* the state file on disk: [kind, doc]
    exc,        \* the exception that escaped the last operation, or "none"
    savePc,     \* StateTracker.save: "idle" | "open" | "write"
    saveCtx,    \* save's local `data`, and the file as it was when save began
    obs,        \* observer of the tracker API: last operation, marks since reset
    disc,       \* _discover_sets: [pc, game, scrape, idx, log, all, out, exc]
    disk,       \* image files that exist: a set of paths <<set_id, card_id, ext>>
    sem,        \* ImageDownloader._semaphore: free slots
    tasks,      \* download_batch: one record per card's _download_with_progress
    dl,         \* download_batch: [conc, pc, ok, fail]
    pc,         \* Scraper.setup / run / teardown: the statement control is at
    cfg,        \* AppConfig and the run() arguments: [game, force, filter, sources]
    allSets,    \* run(): all_sets, a list of SetInfo
    allCards,   \* run(): all_cards, a dict set_id -> cards in insertion order
    cur,        \* run(): index of the current loop over sets
    batch,      \* run(): the last download_batch call and what it returned
    manifests,  \* manifest.json files under the output directory
    run         \* what this run did: escaped exception, save() calls, start files

resVars == <<adapters, fset, fidx, flog, fres, fpc, disc>>
trkVars == <<st, file, exc, savePc, saveCtx, obs>>
dlVars == <<disk, sem, tasks, dl>>

runVars == <<pc, cfg, allSets, allCards, cur, batch, manifests, run>>

vars == <<resVars, trkVars, dlVars, runVars>>

-----------------------------------------------------------------------------
(* Generic helpers *)

\* All sequences over S of length 0..n
SeqsUpTo(S, n) == UNION {[1..k -> S] : k \in 0..n}

\* The set of elements of a sequence
Range(s) == {s[i] : i \in 1..Len(s)}

-----------------------------------------------------------------------------
(* Card resolver: Scraper._fetch_cards *)

\* Longest list an adapter returns from get_cards in the model
MaxListLen == 3

AdapterNames == {"A1", "A2", "A3"}
SetIds == {"S1", "S2"}

\* CardDataBase records an adapter may return: two records share the id "X"
ResCards ==
    { [id |-> "X", name |-> "x-first"],
      [id |-> "X", name |-> "x-other"],
      [id |-> "Y", name |-> "y"] }

\* What one get_cards call yields: an exception, or a list of cards
GetCardsOutcomes ==
    {[raised |-> TRUE, cards |-> <<>>]} \cup
    {[raised |-> FALSE, cards |-> l] : l \in SeqsUpTo(ResCards, MaxListLen)}

\* scraper.py 247-252: keep the first card of every id, in order
RECURSIVE DedupFrom(_, _, _, _)
DedupFrom(cards, i, seen, unique) ==
    IF i > Len(cards) THEN unique
    ELSE IF cards[i].id \notin seen
         THEN DedupFrom(cards, i + 1, seen \cup {cards[i].id}, Append(unique, cards[i]))
         ELSE DedupFrom(cards, i + 1, seen, unique)

\* A mutated dedup that keeps the last card of every id
DedupKeepLast(cards) ==
    LET keep(i) == \A j \in (i + 1)..Len(cards) : cards[j].id # cards[i].id
        RECURSIVE Pick(_)
        Pick(i) == IF i > Len(cards) THEN <<>>
                   ELSE IF keep(i) THEN <<cards[i]>> \o Pick(i + 1) ELSE Pick(i + 1)
    IN Pick(1)

Dedup(cards) == DedupFrom(cards, 1, {}, <<>>)

\* A mutated acceptance test under which a raising adapter ends the chain
AcceptsOrStopsOnRaise(outcome) == outcome.raised \/ Len(outcome.cards) > 0

\* scraper.py 246: `if cards:` -- the call returned and the list is non-empty
Accepts(outcome) == ~outcome.raised /\ Len(outcome.cards) > 0

\* scraper.py 243-261: one iteration of `for adapter in self._adapters`
FetchCall ==
    /\ fpc = "loop"
    /\ fidx <= Len(adapters)
    /\ \E outcome \in GetCardsOutcomes :
         /\ flog' = Append(flog, [adapter |-> adapters[fidx], resp |-> outcome])
         /\ IF Accepts(outcome)
            THEN /\ fres' = Dedup(outcome.cards)
                 /\ fpc' = "done"
                 /\ fidx' = fidx
            ELSE /\ fidx' = fidx + 1
                 /\ UNCHANGED <<fres, fpc>>
    /\ UNCHANGED <<adapters, fset, disc>>
    /\ UNCHANGED <<trkVars, dlVars, runVars>>

\* scraper.py 266-267: every adapter was tried, return []
FetchExhausted ==
    /\ fpc = "loop"
    /\ fidx > Len(adapters)
    /\ fres' = <<>>
    /\ fpc' = "done"
    /\ UNCHANGED <<adapters, fset, fidx, flog, disc>>
    /\ UNCHANGED <<trkVars, dlVars, runVars>>

-----------------------------------------------------------------------------
(* State tracker: the in-memory ScrapeState and the state file *)

\* Python's None where a string is expected (last_scraped, error)
None == "None"
\* Python's None where a path is expected; a path is <<set_id, card_id, ext>>
NoPath == <<>>

\* StateTracker._state before the first access (None), and ScrapeState()
NotLoaded == [loaded |-> FALSE, sets |-> <<>>]
EmptyState == [loaded |-> TRUE, sets |-> <<>>]

\* A dict is a sequence of entries in insertion order, each with its key
HasKey(d, k) == \E i \in 1..Len(d) : d[i].key = k
Lookup(d, k) == d[CHOOSE i \in 1..Len(d) : d[i].key = k]
Keys(d) == {d[i].key : i \in 1..Len(d)}

\* d[k] = v: an existing key keeps its position, a new one goes last
Put(d, k, v) ==
    IF HasKey(d, k)
    THEN [i \in 1..Len(d) |-> IF d[i].key = k THEN v ELSE d[i]]
    ELSE Append(d, v)

\* d.setdefault(k, v)
SetDefault(d, k, v) == IF HasKey(d, k) THEN d ELSE Append(d, v)

\* models.py 50-56: SetScrapeState(set_id=set_id)
NewSetState(set_id) ==
    [key |-> set_id, set_id |-> set_id, last_scraped |-> None,
     card_ids |-> <<>>, images |-> <<>>]

\* models.py 40-46: CardImageStatus
ImageStatus(card_id, status, path, error) ==
    [key |-> card_id, card_id |-> card_id, status |-> status,
     path |-> path, error |-> error]

\* models.py 65-67
IsCardScraped(sets, set_id, card_id) ==
    /\ HasKey(sets, set_id)
    /\ card_id \in Range(Lookup(sets, set_id).card_ids)

\* models.py 69-74
IsImageDownloaded(sets, set_id, card_id) ==
    /\ HasKey(sets, set_id)
    /\ HasKey(Lookup(sets, set_id).images, card_id)
    /\ Lookup(Lookup(sets, set_id).images, card_id).status = "success"

\* A mutated mark_card_scraped that appends without the membership test
MarkCardScrapedAlways(sets, set_id, card_id) ==
    LET d == SetDefault(sets, set_id, NewSetState(set_id))
        ss == Lookup(d, set_id)
    IN Put(d, set_id, [ss EXCEPT !.card_ids = Append(@, card_id)])

\* models.py 76-79
MarkCardScraped(sets, set_id, card_id) ==
    LET d == SetDefault(sets, set_id, NewSetState(set_id))
        ss == Lookup(d, set_id)
    IN IF card_id \in Range(ss.card_ids)
       THEN d
       ELSE Put(d, set_id, [ss EXCEPT !.card_ids = Append(@, card_id)])

\* A mutated mark_image that keeps the entry a card already has
MarkImageKeepFirst(sets, set_id, card_id, status, path, error) ==
    LET d == SetDefault(sets, set_id, NewSetState(set_id))
        ss == Lookup(d, set_id)
    IN Put(d, set_id,
           [ss EXCEPT !.images = SetDefault(@, card_id, ImageStatus(card_id, status, path, error))])

\* models.py 81-92
MarkImage(sets, set_id, card_id, status, path, error) ==
    LET d == SetDefault(sets, set_id, NewSetState(set_id))
        ss == Lookup(d, set_id)
    IN Put(d, set_id,
           [ss EXCEPT !.images = Put(@, card_id, ImageStatus(card_id, status, path, error))])

-----------------------------------------------------------------------------
(* The state file: what json.loads can hand to _deserialize_state.           *)
(* A document records, at every place where the code expects an object,     *)
(* which JSON type is there ("obj", "list", "str", "null") and, for an      *)
(* object, which of the keys the code reads are present.  The scalar        *)
(* fields (set_id, last_scraped, card_ids, card_id, status, path, error)    *)
(* hold values of the type save() writes.                                   *)

\* One member of an "images" object
ImageDoc(cid, shape, hasCardId, hasStatus, card_id, status, path, error) ==
    [key |-> cid, shape |-> shape, hasCardId |-> hasCardId, hasStatus |-> hasStatus,
     card_id |-> card_id, status |-> status, path |-> path, error |-> error]

\* One member of the "sets" object
SetDoc(sid, shape, hasSetId, set_id, last_scraped, hasCardIds, card_ids, hasImages, imagesShape, images) ==
    [key |-> sid, shape |-> shape, hasSetId |-> hasSetId, set_id |-> set_id,
     last_scraped |-> last_scraped, hasCardIds |-> hasCardIds, card_ids |-> card_ids,
     hasImages |-> hasImages, imagesShape |-> imagesShape, images |-> images]

\* The top-level value
TopDoc(top, hasSets, setsShape, sets) ==
    [top |-> top, hasSets |-> hasSets, setsShape |-> setsShape, sets |-> sets]

NullDoc == TopDoc("null", FALSE, "obj", <<>>)

\* File contents: no file; a file that cannot be read or decoded as UTF-8;
\* text json.loads rejects ("garbage", an "empty" file, a "partial" document);
\* a JSON document
NoFile == [kind |-> "absent", doc |-> NullDoc]
UnreadableFile == [kind |-> "unreadable", doc |-> NullDoc]
GarbageFile == [kind |-> "garbage", doc |-> NullDoc]
EmptyFile == [kind |-> "empty", doc |-> NullDoc]
PartialFile == [kind |-> "partial", doc |-> NullDoc]
JsonFile(doc) == [kind |-> "json", doc |-> doc]

\* A mutated serialisation that writes no error text
SerializeImagesWithoutError(images) ==
    [i \in 1..Len(images) |->
        ImageDoc(images[i].key, "obj", TRUE, TRUE, images[i].card_id,
                 images[i].status, images[i].path, None)]

\* state.py 98-117: _serialize_state
SerializeImages(images) ==
    [i \in 1..Len(images) |->
        ImageDoc(images[i].key, "obj", TRUE, TRUE, images[i].card_id,
                 images[i].status, images[i].path, images[i].error)]

SerializeState(sets) ==
    TopDoc("obj", TRUE, "obj",
        [i \in 1..Len(sets) |->
            SetDoc(sets[i].key, "obj", TRUE, sets[i].set_id, sets[i].last_scraped,
                   TRUE, sets[i].card_ids, TRUE, "obj", SerializeImages(sets[i].images))])

\* state.py 125-130: CardImageStatus(card_id=img_raw["card_id"], ...): a
\* subscript on a non-object is a TypeError, a missing key a KeyError
ImageExc(img) ==
    IF img.shape # "obj" THEN "TypeError"
    ELSE IF ~img.hasCardId \/ ~img.hasStatus THEN "KeyError"
    ELSE "none"

\* state.py 124-130: the loop over ss_raw.get("images", {}).items(); the
\* first exception ends it
RECURSIVE ImagesFrom(_, _, _)
ImagesFrom(imgs, i, acc) ==
    IF i > Len(imgs) THEN [exc |-> "none", images |-> acc]
    ELSE IF ImageExc(imgs[i]) # "none" THEN [exc |-> ImageExc(imgs[i]), images |-> acc]
    ELSE ImagesFrom(imgs, i + 1,
             Append(acc, [key |-> imgs[i].key, card_id |-> imgs[i].card_id,
                          status |-> imgs[i].status, path |-> imgs[i].path,
                          error |-> imgs[i].error]))

\* state.py 123-136: one iteration of the loop over the "sets" members;
\* .get / .items() on a non-object is an AttributeError
SetFromDoc(sd) ==
    IF sd.shape # "obj" THEN [exc |-> "AttributeError", set |-> NewSetState(sd.key)]
    ELSE IF sd.hasImages /\ sd.imagesShape # "obj"
         THEN [exc |-> "AttributeError", set |-> NewSetState(sd.key)]
    ELSE LET im == IF sd.hasImages THEN ImagesFrom(sd.images, 1, <<>>)
                   ELSE [exc |-> "none", images |-> <<>>]
         IN [exc |-> im.exc,
             set |-> [key |-> sd.key,
                      set_id |-> IF sd.hasSetId THEN sd.set_id ELSE sd.key,
                      last_scraped |-> sd.last_scraped,
                      card_ids |-> IF sd.hasCardIds THEN sd.card_ids ELSE <<>>,
                      images |-> im.images]]

RECURSIVE SetsFrom(_, _, _)
SetsFrom(sds, i, acc) ==
    IF i > Len(sds) THEN [exc |-> "none", sets |-> acc]
    ELSE LET r == SetFromDoc(sds[i])
         IN IF r.exc # "none" THEN [exc |-> r.exc, sets |-> acc]
            ELSE SetsFrom(sds, i + 1, Append(acc, r.set))

\* state.py 120-137: _deserialize_state
DeserializeState(doc) ==
    IF doc.top # "obj" THEN [exc |-> "AttributeError", sets |-> <<>>]
    ELSE IF ~doc.hasSets THEN [exc |-> "none", sets |-> <<>>]
    ELSE IF doc.setsShape # "obj" THEN [exc |-> "AttributeError", sets |-> <<>>]
    ELSE SetsFrom(doc.sets, 1, <<>>)

\* state.py 93: except (json.JSONDecodeError, KeyError, TypeError)
CaughtByLoad(e) == e \in {"JSONDecodeError", "KeyError", "TypeError"}

\* state.py 91-92: what read_text + json.loads + _deserialize_state raise or
\* return for a file that exists
ReadState(f) ==
    IF f.kind = "unreadable" THEN [exc |-> "OSError", sets |-> <<>>]
    ELSE IF f.kind \in {"garbage", "empty", "partial"}
         THEN [exc |-> "JSONDecodeError", sets |-> <<>>]
    ELSE DeserializeState(f.doc)

\* state.py 85-95: StateTracker._load
Load(f) ==
    IF f.kind = "absent" THEN [exc |-> "none", sets |-> <<>>]
    ELSE LET r == ReadState(f)
         IN IF r.exc = "none" THEN r
            ELSE IF CaughtByLoad(r.exc) THEN [exc |-> "none", sets |-> <<>>]
            ELSE [exc |-> r.exc, sets |-> <<>>]

\* state.py 22-26: the `state` property: load on first access only
StateOf(s, f) ==
    IF s.loaded THEN [exc |-> "none", st |-> s]
    ELSE LET r == Load(f)
         IN [exc |-> r.exc,
             st |-> IF r.exc = "none" THEN [loaded |-> TRUE, sets |-> r.sets] ELSE s]

\* A first access to tracker.state (any query): the lazy load
TrkAccess ==
    /\ savePc = "idle"
    /\ ~st.loaded
    /\ LET r == StateOf(st, file)
       IN /\ st' = r.st
          /\ exc' = r.exc
    /\ obs' = [obs EXCEPT !.op = "access"]
    /\ UNCHANGED <<file, savePc, saveCtx>>
    /\ UNCHANGED <<resVars, dlVars, runVars>>

\* Number of mutating tracker calls (and process stops) in one behaviour
MaxOps == 3

TrkSets == {"S1", "S2"}
TrkCards == {"c1", "c2"}

\* The (status, path, error) arguments mark_image is called with
ImageArgs(s, c) ==
    { [status |-> "success", path |-> <<s, c, "jpg">>, error |-> None],
      [status |-> "failed", path |-> NoPath, error |-> "404"],
      [status |-> "pending", path |-> NoPath, error |-> None] }

NoSave == [data |-> NullDoc, before |-> NoFile]
NoImageMarks == [p \in TrkSets \X TrkCards |-> None]
NoObs ==
    [op |-> "new", wasReset |-> FALSE, marks |-> {}, imarks |-> NoImageMarks,
     overwrote |-> None, n |-> 0]

\* A caller may start an operation: the tracker is not inside save()
TrkReady == savePc = "idle" /\ obs.n < MaxOps

\* tracker.state.mark_card_scraped(s, c)
TrkMarkCardScraped ==
    /\ TrkReady
    /\ \E s \in TrkSets, c \in TrkCards :
         LET r == StateOf(st, file)
         IN /\ exc' = r.exc
            /\ st' = IF r.exc = "none"
                     THEN [r.st EXCEPT !.sets = MarkCardScraped(@, s, c)]
                     ELSE st
            /\ obs' = [obs EXCEPT !.op = "mark_card_scraped", !.n = @ + 1,
                                  !.marks = IF r.exc = "none" THEN @ \cup {<<s, c>>} ELSE @]
    /\ UNCHANGED <<file, savePc, saveCtx>>
    /\ UNCHANGED <<resVars, dlVars, runVars>>

\* tracker.state.mark_image(s, c, status, path, error)
TrkMarkImage ==
    /\ TrkReady
    /\ \E s \in TrkSets, c \in TrkCards :
         \E a \in ImageArgs(s, c) :
           LET r == StateOf(st, file)
           IN /\ exc' = r.exc
              /\ st' = IF r.exc = "none"
                       THEN [r.st EXCEPT !.sets = MarkImage(@, s, c, a.status, a.path, a.error)]
                       ELSE st
              /\ obs' = [obs EXCEPT !.op = "mark_image", !.n = @ + 1,
                                    !.imarks[<<s, c>>] = IF r.exc = "none" THEN a.status ELSE @,
                                    !.overwrote = obs.imarks[<<s, c>>]]
    /\ UNCHANGED <<file, savePc, saveCtx>>
    /\ UNCHANGED <<resVars, dlVars, runVars>>

\* A mutated reset that drops the state object, so the next access loads
ResetToNone == NotLoaded

\* state.py 28-30: self._state = ScrapeState()
ResetState == EmptyState

\* tracker.reset()
TrkReset ==
    /\ TrkReady
    /\ st' = ResetState
    /\ exc' = "none"
    /\ obs' = [obs EXCEPT !.op = "reset", !.n = @ + 1, !.wasReset = TRUE, !.marks = {},
                          !.imarks = NoImageMarks]
    /\ UNCHANGED <<file, savePc, saveCtx>>
    /\ UNCHANGED <<resVars, dlVars, runVars>>

\* state.py 42-47: tracker.delete()
TrkDelete ==
    /\ TrkReady
    /\ file' = NoFile
    /\ st' = EmptyState
    /\ exc' = "none"
    /\ obs' = [obs EXCEPT !.op = "delete", !.n = @ + 1, !.wasReset = TRUE, !.marks = {},
                          !.imarks = NoImageMarks]
    /\ UNCHANGED <<savePc, saveCtx>>
    /\ UNCHANGED <<resVars, dlVars, runVars>>

\* state.py 34-35: save() up to `data = _serialize_state(self.state)`; the
\* lazy load inside it may raise, and then nothing is written
SaveBegin ==
    LET r == StateOf(st, file)
    IN /\ exc' = r.exc
       /\ st' = r.st
       /\ IF r.exc = "none"
          THEN /\ savePc' = "open"
               /\ saveCtx' = [data |-> SerializeState(r.st.sets), before |-> file]
          ELSE UNCHANGED <<savePc, saveCtx>>
       /\ UNCHANGED file

\* state.py 36: write_text opens the file for writing, which truncates it
SaveOpen ==
    /\ savePc = "open"
    /\ file' = EmptyFile
    /\ savePc' = "write"
    /\ UNCHANGED <<st, exc, saveCtx>>

\* state.py 36-39: part of the text has reached the file
SaveWritePart ==
    /\ savePc = "write"
    /\ file = EmptyFile
    /\ file' = PartialFile
    /\ UNCHANGED <<st, exc, savePc, saveCtx>>

\* state.py 36-40: the whole text is written and the file closed
SaveClose ==
    /\ savePc = "write"
    /\ file' = JsonFile(saveCtx.data)
    /\ savePc' = "idle"
    /\ UNCHANGED <<st, exc, saveCtx>>

\* tracker.save(), step by step
TrkSaveBegin ==
    /\ TrkReady
    /\ SaveBegin
    /\ obs' = [obs EXCEPT !.op = "save", !.n = @ + 1]
    /\ UNCHANGED <<resVars, dlVars, runVars>>

TrkSaveOpen ==
    /\ SaveOpen
    /\ obs' = [obs EXCEPT !.op = "save"]
    /\ UNCHANGED <<resVars, dlVars, runVars>>

TrkSaveWritePart ==
    /\ SaveWritePart
    /\ obs' = [obs EXCEPT !.op = "save"]
    /\ UNCHANGED <<resVars, dlVars, runVars>>

TrkSaveClose ==
    /\ SaveClose
    /\ obs' = [obs EXCEPT !.op = "save"]
    /\ UNCHANGED <<resVars, dlVars, runVars>>

\* The process stops (kill, power loss, an OSError out of write_text) and a
\* later process opens a new tracker over the same file
TrkStop ==
    /\ obs.n < MaxOps
    /\ st' = NotLoaded
    /\ exc' = "none"
    /\ savePc' = "idle"
    /\ obs' = [op |-> IF savePc = "idle" THEN "stop" ELSE "stop-in-save",
               wasReset |-> FALSE, marks |-> {}, imarks |-> NoImageMarks,
               overwrote |-> None, n |-> obs.n + 1]
    /\ UNCHANGED <<file, saveCtx>>
    /\ UNCHANGED <<resVars, dlVars, runVars>>

-----------------------------------------------------------------------------
(* Image downloader: onepiece_scraper/downloader.py *)

MAX_RETRIES == 3
BACKOFF_BASE == 1
\* downloader.py 26: the constructor's default `concurrency`
DEFAULT_CONCURRENCY == 5

\* A URL is a sequence of atoms: the separators "/", ".", "?", "#" and words
\* (no two words adjacent).  str.lower() on the words used:
LowerOf(w) ==
    CASE w = "JPG" -> "jpg"
      [] w = "PNG" -> "png"
      [] w = "Gif" -> "gif"
      [] OTHER -> w

\* s.split(ch)[0]
BeforeFirst(s, ch) ==
    IF ch \in Range(s)
    THEN SubSeq(s, 1, (CHOOSE i \in 1..Len(s) : s[i] = ch /\ \A j \in 1..(i - 1) : s[j] # ch) - 1)
    ELSE s

\* s.split(ch)[-1] and s.rsplit(ch, 1)[-1]
AfterLast(s, ch) ==
    IF ch \in Range(s)
    THEN SubSeq(s, (CHOOSE i \in 1..Len(s) : s[i] = ch /\ \A j \in (i + 1)..Len(s) : s[j] # ch) + 1,
                Len(s))
    ELSE s

ImageExtensions == {"jpg", "jpeg", "png", "webp", "gif"}

\* downloader.py 131-138: _url_extension
UrlExtension(url) ==
    LET path == BeforeFirst(BeforeFirst(url, "?"), "#")
        ext == AfterLast(path, ".")
    IN IF "." \in Range(AfterLast(path, "/"))
          /\ Len(ext) = 1 /\ LowerOf(ext[1]) \in ImageExtensions
       THEN LowerOf(ext[1])
       ELSE "jpg"

\* downloader.py 43-45: image_path (the output directory is fixed)
ImagePath(set_id, card_id, ext) == <<set_id, card_id, ext>>

\* downloader.py 47-48: image_exists
ImageExists(files, set_id, card_id, ext) == ImagePath(set_id, card_id, ext) \in files

\* downloader.py 60-61: the destination of a download
Dest(card, url) == ImagePath(card.set_id, card.id, UrlExtension(url))

\* The error half of download_card_image's result
NoError == [msg |-> "None", n |-> 0]
NoUrlError == [msg |-> "No image URL", n |-> 0]
FailedAfter(n) == [msg |-> "Failed after n attempts", n |-> n]

\* How one attempt (client.get, raise_for_status, write_bytes) can end: the
\* file written; a transport error or a non-2xx status; a 2xx answer whose
\* write_bytes raised before or after it created the file
AttemptOutcomes == {"ok", "http_error", "write_error", "write_error_partial"}
Failures == AttemptOutcomes \ {"ok"}

\* A mutated backoff that sleeps the same time after every failure
DelayConstant(attempt) == BACKOFF_BASE

\* downloader.py 78: delay = BACKOFF_BASE * (2 ** (attempt - 1))
Delay(attempt) == BACKOFF_BASE * 2 ^ (attempt - 1)

\* A mutated retry test that allows one attempt more
MayRetryOnceMore(attempt) == attempt < MAX_RETRIES + 1

\* downloader.py 77: if attempt < self._max_retries
MayRetry(attempt) == attempt < MAX_RETRIES

\* A mutated semaphore that admits a task whether or not a slot is free
CanAcquireAlways(free) == TRUE

\* downloader.py 68: `async with self._semaphore` enters when a slot is free
CanAcquire(free) == free > 0

\* A mutated exit that keeps the slot
ReleaseSlotNever(free) == free

\* downloader.py 68: leaving the `async with` block releases the slot
ReleaseSlot(free) == free + 1

\* A mutated URL test that lets an empty URL through
NoUrlNever(url) == FALSE

\* downloader.py 57: `if not image_url`
NoUrl(url) == url = <<>>

NewTask(card, url) ==
    [card |-> card, url |-> url, pc |-> "new", attempt |-> 0, requests |-> 0,
     sleeps |-> <<>>, failed |-> 0, ok |-> FALSE, err |-> NoError,
     callbacks |-> 0, existed |-> FALSE, holds |-> FALSE]

\* A mutated completion that reports progress for successes only
FinishedQuietOnFailure(t, ok, err) ==
    [t EXCEPT !.pc = "done", !.ok = ok, !.err = err,
              !.callbacks = IF ok THEN @ + 1 ELSE @, !.holds = FALSE]

\* downloader.py 121-124: download_card_image returned; the progress callback
\* runs and the task is complete
Finished(t, ok, err) ==
    [t EXCEPT !.pc = "done", !.ok = ok, !.err = err, !.callbacks = @ + 1, !.holds = FALSE]

\* downloader.py 68-72: the semaphore is held and attempt 1 is in flight
FirstRequest(t) ==
    [t EXCEPT !.pc = "request", !.attempt = 1, !.requests = @ + 1, !.holds = TRUE]

\* downloader.py 57-72: a task runs up to its first suspension.  gather starts
\* the tasks in list order.  t.existed is dest.exists() (line 63).
TaskStart(i) ==
    /\ dl.pc = "running"
    /\ tasks[i].pc = "new"
    /\ \A j \in 1..(i - 1) : tasks[j].pc # "new"
    /\ LET t == [tasks[i] EXCEPT !.existed = Dest(tasks[i].card, tasks[i].url) \in disk]
       IN IF NoUrl(t.url)
          THEN /\ tasks' = [tasks EXCEPT ![i] = Finished(t, FALSE, NoUrlError)]
               /\ UNCHANGED sem
          ELSE IF t.existed
          THEN /\ tasks' = [tasks EXCEPT ![i] = Finished(t, TRUE, NoError)]
               /\ UNCHANGED sem
          ELSE IF CanAcquire(sem)
          THEN /\ tasks' = [tasks EXCEPT ![i] = FirstRequest(t)]
               /\ sem' = sem - 1
          ELSE /\ tasks' = [tasks EXCEPT ![i].pc = "waiting", ![i].existed = t.existed]
               /\ UNCHANGED sem
    /\ UNCHANGED <<disk, dl>>

\* downloader.py 68: a waiting task gets a free slot
TaskAcquire(i) ==
    /\ tasks[i].pc = "waiting"
    /\ CanAcquire(sem)
    /\ sem' = sem - 1
    /\ tasks' = [tasks EXCEPT ![i] = FirstRequest(tasks[i])]
    /\ UNCHANGED <<disk, dl>>

\* downloader.py 72-91: the request of the current attempt ends
TaskResponse(i) ==
    /\ tasks[i].pc = "request"
    /\ \E o \in AttemptOutcomes :
         LET t == [tasks[i] EXCEPT !.failed = IF o \in Failures THEN @ + 1 ELSE @]
             dest == Dest(t.card, t.url)
         IN /\ disk' = IF o \in {"ok", "write_error_partial"} THEN disk \cup {dest} ELSE disk
            /\ IF o = "ok"
               THEN /\ tasks' = [tasks EXCEPT ![i] = Finished(t, TRUE, NoError)]
                    /\ sem' = ReleaseSlot(sem)
               ELSE IF MayRetry(t.attempt)
               THEN /\ tasks' = [tasks EXCEPT ![i] =
                                   [t EXCEPT !.pc = "sleeping",
                                             !.sleeps = Append(@, Delay(t.attempt))]]
                    /\ UNCHANGED sem
               ELSE /\ tasks' = [tasks EXCEPT ![i] = Finished(t, FALSE, FailedAfter(MAX_RETRIES))]
                    /\ sem' = ReleaseSlot(sem)
    /\ UNCHANGED dl

\* downloader.py 87, 69-72: the backoff sleep is over, the next attempt starts
TaskWake(i) ==
    /\ tasks[i].pc = "sleeping"
    /\ tasks' = [tasks EXCEPT ![i].pc = "request", ![i].attempt = @ + 1,
                              ![i].requests = @ + 1]
    /\ UNCHANGED <<disk, sem, dl>>

\* downloader.py 110-113: gather returned; count the results
BatchDone ==
    /\ dl.pc = "running"
    /\ \A i \in 1..Len(tasks) : tasks[i].pc = "done"
    /\ dl' = [dl EXCEPT !.pc = "done",
                        !.ok = Cardinality({i \in 1..Len(tasks) : tasks[i].ok}),
                        !.fail = Len(tasks) - Cardinality({i \in 1..Len(tasks) : tasks[i].ok})]
    /\ UNCHANGED <<disk, sem, tasks>>

DlStart == \E i \in 1..Len(tasks) : TaskStart(i) /\ UNCHANGED <<resVars, trkVars, runVars>>
DlAcquire == \E i \in 1..Len(tasks) : TaskAcquire(i) /\ UNCHANGED <<resVars, trkVars, runVars>>
DlResponse == \E i \in 1..Len(tasks) : TaskResponse(i) /\ UNCHANGED <<resVars, trkVars, runVars>>
DlWake == \E i \in 1..Len(tasks) : TaskWake(i) /\ UNCHANGED <<resVars, trkVars, runVars>>
DlBatchDone == BatchDone /\ UNCHANGED <<resVars, trkVars, runVars>>

\* Cards in one batch; the downloader is built with a concurrency of 1 up to
\* that number, or with the constructor's default
MaxBatch == 2

Concurrencies == (1..MaxBatch) \cup {DEFAULT_CONCURRENCY}

\* URLs get_url hands to the downloader
UrlJpg == <<"h", "/", "img", ".", "jpg">>
UrlPngQuery == <<"h", "/", "img", ".", "PNG", "?", "v", ".", "2">>
DlUrls == {<<>>, UrlJpg, UrlPngQuery}

BatchCard(i) == [set_id |-> "S1", id |-> IF i = 1 THEN "c1" ELSE IF i = 2 THEN "c2" ELSE "c3"]

DownloaderIdle ==
    /\ disk = {}
    /\ sem = 0
    /\ tasks = <<>>
    /\ dl = [conc |-> 0, pc |-> "idle", ok |-> 0, fail |-> 0]

-----------------------------------------------------------------------------
(* The state files the load is checked on *)

CardIds == {"c1", "c2"}

\* Members of an "images" object for card id cid: a non-object, or an object
\* with or without the two keys the code subscripts
ImageDocs(cid) ==
    {ImageDoc(cid, sh, FALSE, FALSE, cid, "failed", NoPath, None) :
        sh \in {"list", "str", "null"}} \cup
    {ImageDoc(cid, "obj", hc, FALSE, cid, "failed", NoPath, None) : hc \in BOOLEAN} \cup
    {ImageDoc(cid, "obj", hc, TRUE, cid, "success", <<"S1", cid, "jpg">>, None) :
        hc \in BOOLEAN} \cup
    {ImageDoc(cid, "obj", hc, TRUE, cid, "failed", NoPath, "404") : hc \in BOOLEAN}

\* Members of the "sets" object for set id sid
SetDocs(sid) ==
    {SetDoc(sid, sh, FALSE, sid, None, FALSE, <<>>, FALSE, "obj", <<>>) :
        sh \in {"list", "null"}} \cup
    {SetDoc(sid, "obj", hs, sid, None, FALSE, <<>>, FALSE, "obj", <<>>) :
        hs \in BOOLEAN} \cup
    {SetDoc(sid, "obj", hs, sid, "t0", TRUE, ids, FALSE, "obj", <<>>) :
        hs \in BOOLEAN, ids \in {<<>>, <<"c1">>}} \cup
    {SetDoc(sid, "obj", TRUE, sid, "t0", TRUE, <<"c1">>, TRUE, sh, <<>>) :
        sh \in {"list", "null", "obj"}} \cup
    {SetDoc(sid, "obj", TRUE, sid, "t0", TRUE, <<"c1">>, TRUE, "obj", <<img>>) :
        img \in ImageDocs("c1")}

JsonDocs ==
    {TopDoc(t, FALSE, "obj", <<>>) : t \in {"null", "list", "str", "obj"}} \cup
    {TopDoc("obj", TRUE, sh, <<>>) : sh \in {"null", "list", "obj"}} \cup
    {TopDoc("obj", TRUE, "obj", <<sd>>) : sd \in SetDocs("S1")} \cup
    {TopDoc("obj", TRUE, "obj", <<a, b>>) : a \in SetDocs("S1"), b \in SetDocs("S2")} \cup
    {TopDoc("obj", TRUE, "obj", <<b, a>>) : a \in SetDocs("S1"), b \in SetDocs("S2")}

FileUniverse ==
    {NoFile, UnreadableFile, GarbageFile, EmptyFile, PartialFile} \cup
    {JsonFile(d) : d \in JsonDocs}

-----------------------------------------------------------------------------
(* Pipeline controller: Scraper.setup, run, teardown (scraper.py) *)

\* A manifest.json: absent, left by an earlier run, or written by this run
NoManifest == [state |-> "absent", items |-> <<>>]
OldManifest(items) == [state |-> "old", items |-> items]
NewManifest(items) == [state |-> "new", items |-> items]

NoManifests == [root |-> NoManifest, set |-> [s \in SetIds |-> NoManifest]]
OldManifests ==
    [root |-> OldManifest(<<"S1">>),
     set |-> [s \in SetIds |-> IF s = "S1" THEN OldManifest(<<"c1">>) ELSE NoManifest]]

NoBatch == [set_id |-> "none", cards |-> <<>>, urls |-> <<>>, ok |-> 0, fail |-> 0,
            recorded |-> FALSE]

NoRun(f, m) ==
    [exc |-> "none", stage |-> "none", origin |-> "none", saves |-> 0,
     returned |-> "no", filtered |-> FALSE, closeCaught |-> FALSE,
     reqFailed |-> FALSE, file0 |-> f, man0 |-> m]

\* No Scraper is running (the component specifications)
RunIdle ==
    /\ pc = "idle"
    /\ cfg = [game |-> "mtg", force |-> FALSE, filter |-> <<>>, sources |-> <<>>]
    /\ allSets = <<>>
    /\ allCards = <<>>
    /\ cur = 1
    /\ batch = NoBatch
    /\ manifests = NoManifests
    /\ run = NoRun(NoFile, NoManifests)

\* config.py 42-49: ScrapeConfig with its four fields
ScrapeConfig(include_starters) ==
    [sets |-> "all", categories |-> None, include_starters |-> include_starters,
     include_tokens |-> FALSE]

\* Reading obj.name raises AttributeError unless the object has the field
HasAttr(obj, name) == name \in DOMAIN obj

\* scraper.py 231-232: f"ST-{i:02d}" for i in range(1, 20)
StarterIds ==
    <<"ST-01", "ST-02", "ST-03", "ST-04", "ST-05", "ST-06", "ST-07", "ST-08",
      "ST-09", "ST-10", "ST-11", "ST-12", "ST-13", "ST-14", "ST-15", "ST-16",
      "ST-17", "ST-18", "ST-19">>

\* models.py 13-19: SetInfo; the name tells which adapter supplied the entry
SetInfo(id, name) == [key |-> id, id |-> id, name |-> name]

\* What one list_sets call of adapter a yields
ListSetsAnswer(a, kind) ==
    CASE kind = "raise" -> [raised |-> TRUE, sets |-> <<>>]
      [] kind = "empty" -> [raised |-> FALSE, sets |-> <<>>]
      [] kind = "one" -> [raised |-> FALSE, sets |-> <<SetInfo("S1", a)>>]
      [] kind = "many" -> [raised |-> FALSE, sets |-> <<SetInfo("S2", a), SetInfo("S1", a)>>]
      [] kind = "starter" -> [raised |-> FALSE, sets |-> <<SetInfo("ST-02", a)>>]

AnswerKinds == {"raise", "empty", "one", "many"}

\* scraper.py 221-223: `if s.id not in all_sets: all_sets[s.id] = s`
RECURSIVE AddNewSets(_, _, _)
AddNewSets(all, sets, j) ==
    IF j > Len(sets) THEN all
    ELSE AddNewSets(SetDefault(all, sets[j].id, sets[j]), sets, j + 1)

\* scraper.py 218-225: the loop over the adapters; a raising adapter adds nothing
RECURSIVE MergeSets(_, _, _)
MergeSets(answers, i, all) ==
    IF i > Len(answers) THEN all
    ELSE MergeSets(answers, i + 1,
                   IF answers[i].raised THEN all ELSE AddNewSets(all, answers[i].sets, 1))

\* The set ids of the model in ascending string order
IdOrder == <<"PROMO", "S1", "S2", "S9">> \o StarterIds

\* A mutated return value that keeps the order in which the ids were met
InsertionOrder(d) == d

\* scraper.py 239: sorted(all_sets.values(), key=lambda s: s.id); the keys of
\* a dict are distinct
SortById(d) ==
    LET present == SelectSeq(IdOrder, LAMBDA k : HasKey(d, k))
    IN [i \in 1..Len(present) |-> Lookup(d, present[i])]

StarterSets == [i \in 1..Len(StarterIds) |-> SetInfo(StarterIds[i], "synthetic")]

\* scraper.py 228-235: the exception raised by the synthetic-entry branch
SyntheticExc(game, scrape) ==
    IF game = "onepiece" /\ ~HasAttr(scrape, "include_promos")
    THEN "AttributeError"
    ELSE "none"

\* scraper.py 227-237: the game-specific synthetic entries; what is in
\* all_sets afterwards and the exception raised on the way, if any
Synthetic(all, game, scrape) ==
    IF game # "onepiece" THEN [exc |-> "none", all |-> all]
    ELSE LET withStarters == IF scrape.include_starters
                             THEN AddNewSets(all, StarterSets, 1)
                             ELSE all
         IN IF SyntheticExc(game, scrape) # "none"
            THEN [exc |-> SyntheticExc(game, scrape), all |-> withStarters]
            ELSE [exc |-> "none",
                  all |-> IF scrape.include_promos
                          THEN AddNewSets(withStarters, <<SetInfo("PROMO", "synthetic")>>, 1)
                          ELSE withStarters]

\* scraper.py 228-237: the One Piece branch reads scrape_cfg.include_promos,
\* a field config.py's ScrapeConfig (42-49) does not have
DiscoverExc(game) == SyntheticExc(game, ScrapeConfig(TRUE))

\* scraper.py 214-239: _discover_sets
DiscoverSets(answers) == SortById(MergeSets(answers, 1, <<>>))

\* scraper.py 98-101: the allowlist filter; an empty or missing list keeps all
ApplyFilter(sets, filter_ids) ==
    IF filter_ids # <<>>
    THEN SelectSeq(sets, LAMBDA s : s.id \in Range(filter_ids))
    ELSE sets

\* models.py 22-36: CardDataBase
Card(id, name, set_id, source, image_url) ==
    [id |-> id, name |-> name, set_id |-> set_id, source |-> source,
     image_url |-> image_url]

\* What one get_cards(set_id) call of adapter a yields
GetCardsAnswer(a, set_id, kind) ==
    CASE kind = "raise" -> [raised |-> TRUE, cards |-> <<>>]
      [] kind = "empty" -> [raised |-> FALSE, cards |-> <<>>]
      [] kind = "one" ->
           [raised |-> FALSE,
            cards |-> IF set_id = "S1"
                      THEN <<Card("c1", "first", set_id, a, UrlPngQuery)>>
                      ELSE <<Card("c3", "first", set_id, a, <<>>)>>]
      [] kind = "many" ->
           [raised |-> FALSE,
            cards |-> IF set_id = "S1"
                      THEN <<Card("c1", "first", set_id, a, UrlPngQuery),
                             Card("c2", "first", set_id, a, UrlJpg),
                             Card("c1", "again", set_id, a, UrlJpg)>>
                      ELSE <<Card("c3", "first", set_id, a, <<>>),
                             Card("c3", "again", set_id, a, UrlJpg)>>]

\* scraper.py 241-267: _fetch_cards as a function of the adapters' answers
RECURSIVE FetchCards(_, _)
FetchCards(answers, i) ==
    IF i > Len(answers) THEN <<>>
    ELSE IF Accepts(answers[i]) THEN Dedup(answers[i].cards)
    ELSE FetchCards(answers, i + 1)

\* scraper.py 123-124: mark_card_scraped for every card of the set
RECURSIVE MarkCards(_, _, _, _)
MarkCards(sets, set_id, cards, i) ==
    IF i > Len(cards) THEN sets
    ELSE MarkCards(MarkCardScraped(sets, set_id, cards[i].id), set_id, cards, i + 1)

\* A mutated fetch stage that leaves last_scraped as it was
KeepLastScraped(sets, set_id, t) == sets

\* scraper.py 125-127: sets[set_id].last_scraped = now
SetLastScraped(sets, set_id, t) ==
    Put(sets, set_id, [Lookup(sets, set_id) EXCEPT !.last_scraped = t])

\* The time of this run (earlier runs wrote "t0")
Now == "t1"

\* A mutated pending subset that ignores the stored statuses
ToDownloadAll(sets, set_id, cards, force) == cards

\* scraper.py 147-152: the pending subset of a set's cards
ToDownload(sets, set_id, cards, force) ==
    IF force THEN cards
    ELSE SelectSeq(cards, LAMBDA c : ~IsImageDownloaded(sets, set_id, c.id))

\* scraper.py 269-274: _get_best_image_url when the adapter call returns; all
\* adapters of the repository return card.image_url here
GetBestImageUrl(card) == card.image_url

\* downloader.py 50-91: what download_card_image leaves and returns, given how
\* its attempts end: "ok" some attempt wrote the file; "fail" none did;
\* "fail_partial" none did and a failed write_bytes left a file behind
DownloadOne(files, card, url, out) ==
    IF url = <<>> THEN [ok |-> FALSE, files |-> files]
    ELSE IF Dest(card, url) \in files THEN [ok |-> TRUE, files |-> files]
    ELSE IF out = "ok" THEN [ok |-> TRUE, files |-> files \cup {Dest(card, url)}]
    ELSE IF out = "fail_partial" THEN [ok |-> FALSE, files |-> files \cup {Dest(card, url)}]
    ELSE [ok |-> FALSE, files |-> files]

DownloadOuts == {"ok", "fail", "fail_partial"}

\* downloader.py 58-91: the card's requests were sent and none of them succeeded
RequestsFailed(files, card, url, out) ==
    url # <<>> /\ Dest(card, url) \notin files /\ out # "ok"

\* downloader.py 110-113: the batch's files and success count
RECURSIVE DownloadAll(_, _, _, _, _, _)
DownloadAll(files, cards, urls, outs, i, oks) ==
    IF i > Len(cards) THEN [files |-> files, ok |-> oks, fail |-> Len(cards) - oks]
    ELSE LET r == DownloadOne(files, cards[i], urls[i], outs[i])
         IN DownloadAll(r.files, cards, urls, outs, i + 1, IF r.ok THEN oks + 1 ELSE oks)

\* scraper.py 168-175: the status recorded for every card of the batch
RECURSIVE RecordAll(_, _, _, _, _)
RecordAll(sets, files, set_id, cards, i) ==
    IF i > Len(cards) THEN sets
    ELSE RecordAll(
            IF ImageExists(files, set_id, cards[i].id, "jpg")
            THEN MarkImage(sets, set_id, cards[i].id, "success",
                           ImagePath(set_id, cards[i].id, "jpg"), None)
            ELSE MarkImage(sets, set_id, cards[i].id, "failed", NoPath, None),
            files, set_id, cards, i + 1)

\* A mutated selection that lists the sets with cards last to first
SetsWithCardsDescending(sets, cards) ==
    LET kept == SelectSeq(sets, LAMBDA s : HasKey(cards, s.id))
    IN [i \in 1..Len(kept) |-> kept[Len(kept) + 1 - i]]

\* scraper.py 188: sets_with_cards
SetsWithCards(sets, cards) == SelectSeq(sets, LAMBDA s : HasKey(cards, s.id))

\* The ids of a list of SetInfo or of cards
IdsOf(l) == [i \in 1..Len(l) |-> l[i].id]

\* _discover_sets is not running
DiscIdle ==
    [pc |-> "idle", game |-> "mtg", scrape |-> ScrapeConfig(TRUE), idx |-> 1,
     log |-> <<>>, all |-> <<>>, out |-> <<>>, exc |-> "none"]

\* What an adapter may answer to list_sets in the discovery specification:
\* the answers of the pipeline, or a list holding a starter id
DiscAnswerKinds == AnswerKinds \cup {"starter"}

\* A mutated iteration in which an adapter's exception leaves _discover_sets
AfterListSetsPropagating(d, adapter, answer) ==
    IF answer.raised
    THEN [d EXCEPT !.log = Append(@, [adapter |-> adapter, resp |-> answer]),
                   !.pc = "done", !.exc = "AdapterError"]
    ELSE [d EXCEPT !.log = Append(@, [adapter |-> adapter, resp |-> answer]),
                   !.all = AddNewSets(@, answer.sets, 1), !.idx = @ + 1]

\* scraper.py 219-225: the body of the loop; `except Exception` logs a warning
\* and the loop goes on to the next adapter
AfterListSets(d, adapter, answer) ==
    [d EXCEPT !.log = Append(@, [adapter |-> adapter, resp |-> answer]),
              !.all = IF answer.raised THEN @ ELSE AddNewSets(@, answer.sets, 1),
              !.idx = @ + 1]

\* scraper.py 218-225: one iteration of `for adapter in self._adapters`
DiscCall ==
    /\ disc.pc = "loop"
    /\ disc.idx <= Len(adapters)
    /\ \E kind \in DiscAnswerKinds :
         disc' = AfterListSets(disc, adapters[disc.idx], ListSetsAnswer(adapters[disc.idx], kind))
    /\ UNCHANGED <<adapters, fset, fidx, flog, fres, fpc>>
    /\ UNCHANGED <<trkVars, dlVars, runVars>>

\* scraper.py 227-239: the synthetic entries and the sorted return value
DiscFinish ==
    /\ disc.pc = "loop"
    /\ disc.idx > Len(adapters)
    /\ LET r == Synthetic(disc.all, disc.game, disc.scrape)
       IN disc' = [disc EXCEPT !.pc = "done", !.all = r.all, !.exc = r.exc,
                               !.out = IF r.exc = "none" THEN SortById(r.all) ELSE <<>>]
    /\ UNCHANGED <<adapters, fset, fidx, flog, fres, fpc>>
    /\ UNCHANGED <<trkVars, dlVars, runVars>>

\* A mutated exception path on which the state is saved before teardown
AfterRaiseSave == "save"

\* cli.py 136-141: an exception leaving setup() or run() goes to the finally
\* clause, i.e. to teardown()
AfterRaise == "teardown"

\* An exception of the given type and origin escapes the given stage
Raise(stage, type, origin) ==
    /\ run' = [run EXCEPT !.exc = type, !.stage = stage, !.origin = origin]
    /\ pc' = AfterRaise

\* config.py 20-30: SourceConfig, the fields setup() depends on
SourceConfig(name, enabled, priority) ==
    [name |-> name, enabled |-> enabled, priority |-> priority]

\* A mutated sort step that puts s in front of the sources of equal priority
InsertBeforeEquals(sorted, s) ==
    LET before == SelectSeq(sorted, LAMBDA x : x.priority < s.priority)
        after == SelectSeq(sorted, LAMBDA x : x.priority >= s.priority)
    IN before \o <<s>> \o after

\* One step of a stable sort by priority: s goes behind every source whose
\* priority is not greater than its own
InsertByPriority(sorted, s) ==
    LET before == SelectSeq(sorted, LAMBDA x : x.priority <= s.priority)
        after == SelectSeq(sorted, LAMBDA x : x.priority > s.priority)
    IN before \o <<s>> \o after

RECURSIVE SortByPriority(_, _, _)
SortByPriority(list, i, sorted) ==
    IF i > Len(list) THEN sorted
    ELSE SortByPriority(list, i + 1, InsertByPriority(sorted, list[i]))

\* A mutated property that keeps the enabled sources in file order
EnabledSourcesInFileOrder(sources) == SelectSeq(sources, LAMBDA x : x.enabled)

\* config.py 66-72: GameConfig.enabled_sources
EnabledSources(sources) ==
    SortByPriority(SelectSeq(sources, LAMBDA x : x.enabled), 1, <<>>)

\* scraper.py 63-70: the adapters appended by the loop when exactly the
\* sources named in `ok` can be instantiated
LoadedAdapters(sources, ok) ==
    LET loadable == SelectSeq(EnabledSources(sources), LAMBDA x : x.name \in ok)
    IN [i \in 1..Len(loadable) |-> loadable[i].name]

\* scraper.py 61-73: setup(); every enabled source loads or fails to
RunSetup ==
    /\ pc = "setup"
    /\ \E ok \in SUBSET {cfg.sources[i].name : i \in 1..Len(cfg.sources)} :
         LET loaded == LoadedAdapters(cfg.sources, ok)
         IN /\ adapters' = loaded
            /\ IF loaded = <<>>
               THEN Raise("Setup", "RuntimeError", "core")
               ELSE /\ pc' = "reset"
                    /\ UNCHANGED run
    /\ UNCHANGED <<fset, fidx, flog, fres, fpc, disc>>
    /\ UNCHANGED <<trkVars, dlVars, cfg, allSets, allCards, cur, batch, manifests>>

\* Mutated force tests: the tracker is reset in every run, or in none
ResetsStateAlways(force) == TRUE
ResetsStateNever(force) == FALSE

\* scraper.py 86: `if force:`
ResetsState(force) == force

\* scraper.py 86-88: force mode resets the tracker
RunReset ==
    /\ pc = "reset"
    /\ IF ResetsState(cfg.force)
       THEN /\ st' = ResetState
            /\ exc' = "none"
       ELSE UNCHANGED <<st, exc>>
    /\ pc' = "discover"
    /\ UNCHANGED <<file, savePc, saveCtx, obs>>
    /\ UNCHANGED <<resVars, dlVars, cfg, allSets, allCards, cur, batch, manifests, run>>

\* scraper.py 92-95: _discover_sets and the early return on no sets
RunDiscover ==
    /\ pc = "discover"
    /\ \E kinds \in [1..Len(adapters) -> AnswerKinds] :
         LET answers == [i \in 1..Len(adapters) |-> ListSetsAnswer(adapters[i], kinds[i])]
             found == DiscoverSets(answers)
         IN IF DiscoverExc(cfg.game) # "none"
            THEN /\ Raise("Discover", DiscoverExc(cfg.game), "core")
                 /\ UNCHANGED allSets
            ELSE IF found = <<>>
            THEN /\ pc' = "teardown"
                 /\ run' = [run EXCEPT !.returned = "no-sets"]
                 /\ UNCHANGED allSets
            ELSE /\ pc' = "filter"
                 /\ allSets' = found
                 /\ UNCHANGED run
    /\ UNCHANGED <<resVars, trkVars, dlVars, cfg, allCards, cur, batch, manifests>>

\* A mutated loop that may be left before its last element
LoopOverAnyTime(i, list) == TRUE

\* scraper.py 119, 146, 194: a `for` loop ends when its list is exhausted
LoopOver(i, list) == i > Len(list)

\* scraper.py 98-104: the allowlist filter
RunFilter ==
    /\ pc = "filter"
    /\ allSets' = ApplyFilter(allSets, cfg.filter)
    /\ run' = [run EXCEPT !.filtered = TRUE]
    /\ pc' = "fetch"
    /\ cur' = 1
    /\ UNCHANGED <<resVars, trkVars, dlVars, cfg, allCards, batch, manifests>>

\* scraper.py 119-128: one iteration of the fetch loop
RunFetchSet ==
    /\ pc = "fetch"
    /\ cur <= Len(allSets)
    /\ \E kinds \in [1..Len(adapters) -> AnswerKinds] :
         LET set_id == allSets[cur].id
             answers == [i \in 1..Len(adapters) |->
                            GetCardsAnswer(adapters[i], set_id, kinds[i])]
             cards == FetchCards(answers, 1)
             r == StateOf(st, file)
         IN IF cards = <<>>
            THEN /\ cur' = cur + 1
                 /\ UNCHANGED <<st, exc, allCards, pc, run>>
            ELSE IF r.exc # "none"
            THEN /\ exc' = r.exc
                 /\ Raise("Fetch", r.exc, "state")
                 /\ allCards' = Put(allCards, set_id, [key |-> set_id, cards |-> cards])
                 /\ UNCHANGED <<st, cur>>
            ELSE /\ st' = [r.st EXCEPT !.sets =
                              SetLastScraped(MarkCards(@, set_id, cards, 1), set_id, Now)]
                 /\ exc' = "none"
                 /\ allCards' = Put(allCards, set_id, [key |-> set_id, cards |-> cards])
                 /\ cur' = cur + 1
                 /\ UNCHANGED <<pc, run>>
    /\ UNCHANGED <<file, savePc, saveCtx, obs>>
    /\ UNCHANGED <<resVars, dlVars, cfg, allSets, batch, manifests>>

\* scraper.py 130-146: the fetch loop is over, the download loop starts
RunFetchDone ==
    /\ pc = "fetch"
    /\ LoopOver(cur, allSets)
    /\ pc' = "download"
    /\ cur' = 1
    /\ UNCHANGED <<resVars, trkVars, dlVars, cfg, allSets, allCards, batch, manifests, run>>

\* scraper.py 146-166: one set of the download loop up to the return of
\* download_batch.  get_url is called for every card before any download
\* starts (downloader.py 105-108), outside any try.
RunBatch ==
    /\ pc = "download"
    /\ cur <= Len(allCards)
    /\ LET set_id == allCards[cur].key
           to_download == ToDownload(StateOf(st, file).st.sets, set_id,
                                     allCards[cur].cards, cfg.force)
           n == Len(to_download)
       IN IF to_download = <<>>
          THEN /\ cur' = cur + 1
               /\ UNCHANGED <<disk, batch, pc, run>>
          ELSE \E urlRaises \in SUBSET (1..n) :
                 IF urlRaises # {}
                 THEN /\ Raise("Download", "AdapterError", "adapter")
                      /\ UNCHANGED <<disk, batch, cur>>
                 ELSE \E outs \in [1..n -> DownloadOuts] :
                        LET urls == [i \in 1..n |-> GetBestImageUrl(to_download[i])]
                            r == DownloadAll(disk, to_download, urls, outs, 1, 0)
                        IN /\ disk' = r.files
                           /\ batch' = [set_id |-> set_id, cards |-> to_download,
                                        urls |-> urls, ok |-> r.ok, fail |-> r.fail,
                                        recorded |-> FALSE]
                           /\ pc' = "record"
                           /\ run' = [run EXCEPT !.reqFailed =
                                         @ \/ \E i \in 1..n :
                                                RequestsFailed(disk, to_download[i],
                                                               urls[i], outs[i])]
                           /\ UNCHANGED cur
    /\ UNCHANGED <<sem, tasks, dl>>
    /\ UNCHANGED <<resVars, trkVars, cfg, allSets, allCards, manifests>>

\* scraper.py 168-178: the statuses of the batch are recorded
RunRecord ==
    /\ pc = "record"
    /\ st' = [st EXCEPT !.sets = RecordAll(@, disk, batch.set_id, batch.cards, 1)]
    /\ batch' = [batch EXCEPT !.recorded = TRUE]
    /\ pc' = "download"
    /\ cur' = cur + 1
    /\ UNCHANGED <<file, exc, savePc, saveCtx, obs>>
    /\ UNCHANGED <<resVars, dlVars, cfg, allSets, allCards, manifests, run>>

\* scraper.py 180-187: the download loop is over
RunDownloadDone ==
    /\ pc = "download"
    /\ LoopOver(cur, allCards)
    /\ pc' = "manifest_root"
    /\ UNCHANGED <<resVars, trkVars, dlVars, cfg, allSets, allCards, cur, batch, manifests, run>>

\* What writing a manifest file can do: succeed, or raise an OSError
WriteOutcomes == {"ok", "OSError"}

\* scraper.py 187-193: the root manifest lists the sets that have cards
RunManifestRoot ==
    /\ pc = "manifest_root"
    /\ \E w \in WriteOutcomes :
         IF w = "ok"
         THEN /\ manifests' = [manifests EXCEPT !.root =
                                  NewManifest(IdsOf(SetsWithCards(allSets, allCards)))]
              /\ pc' = "manifest_set"
              /\ cur' = 1
              /\ UNCHANGED run
         ELSE /\ Raise("Manifest", w, "io")
              /\ UNCHANGED <<manifests, cur>>
    /\ UNCHANGED <<resVars, trkVars, dlVars, cfg, allSets, allCards, batch>>

\* scraper.py 194-200: one set manifest
RunManifestSet ==
    /\ pc = "manifest_set"
    /\ cur <= Len(SetsWithCards(allSets, allCards))
    /\ \E w \in WriteOutcomes :
         LET set_id == SetsWithCards(allSets, allCards)[cur].id
         IN IF w = "ok"
            THEN /\ manifests' = [manifests EXCEPT !.set[set_id] =
                                     NewManifest(IdsOf(Lookup(allCards, set_id).cards))]
                 /\ cur' = cur + 1
                 /\ UNCHANGED <<pc, run>>
            ELSE /\ Raise("Manifest", w, "io")
                 /\ UNCHANGED <<manifests, cur>>
    /\ UNCHANGED <<resVars, trkVars, dlVars, cfg, allSets, allCards, batch>>

\* scraper.py 200-203: all set manifests are written
RunManifestDone ==
    /\ pc = "manifest_set"
    /\ LoopOver(cur, SetsWithCards(allSets, allCards))
    /\ pc' = "save"
    /\ UNCHANGED <<resVars, trkVars, dlVars, cfg, allSets, allCards, cur, batch, manifests, run>>

\* scraper.py 203: self._state.save() is called
RunSaveBegin ==
    /\ pc = "save"
    /\ savePc = "idle"
    /\ SaveBegin
    /\ IF exc' # "none"
       THEN /\ run' = [run EXCEPT !.saves = @ + 1, !.exc = exc', !.stage = "Persist",
                                  !.origin = "state"]
            /\ pc' = "teardown"
       ELSE /\ run' = [run EXCEPT !.saves = @ + 1]
            /\ UNCHANGED pc
    /\ UNCHANGED obs
    /\ UNCHANGED <<resVars, dlVars, cfg, allSets, allCards, cur, batch, manifests>>

RunSaveOpen ==
    /\ pc = "save"
    /\ SaveOpen
    /\ UNCHANGED obs
    /\ UNCHANGED <<resVars, dlVars, runVars>>

RunSaveWritePart ==
    /\ pc = "save"
    /\ SaveWritePart
    /\ UNCHANGED obs
    /\ UNCHANGED <<resVars, dlVars, runVars>>

\* scraper.py 203-204: save() returned, run() returns
RunSaveClose ==
    /\ pc = "save"
    /\ SaveClose
    /\ pc' = "teardown"
    /\ run' = [run EXCEPT !.returned = "complete"]
    /\ UNCHANGED obs
    /\ UNCHANGED <<resVars, dlVars, cfg, allSets, allCards, cur, batch, manifests>>

\* scraper.py 75-82: teardown(); an adapter's close() may raise and is caught
RunTeardown ==
    /\ pc = "teardown"
    /\ \E failing \in SUBSET Range(adapters) :
         run' = [run EXCEPT !.closeCaught = failing # {}]
    /\ pc' = "done"
    /\ UNCHANGED <<resVars, trkVars, dlVars, cfg, allSets, allCards, cur, batch, manifests>>

-----------------------------------------------------------------------------
(* Specifications *)

\* Non-empty adapter lists without repetition (what setup() can leave loaded)
AdapterLists ==
    {l \in SeqsUpTo(AdapterNames, Cardinality(AdapterNames)) :
        Len(l) > 0 /\ \A i, j \in 1..Len(l) : i # j => l[i] # l[j]}

InitResolver ==
    /\ adapters \in AdapterLists
    /\ fset \in SetIds
    /\ fidx = 1
    /\ flog = <<>>
    /\ fres = <<>>
    /\ fpc = "loop"
    /\ disc = DiscIdle
    /\ st = NotLoaded
    /\ file = NoFile
    /\ exc = "none"
    /\ savePc = "idle"
    /\ saveCtx = NoSave
    /\ obs = NoObs
    /\ DownloaderIdle
    /\ RunIdle

ResolverIdle ==
    /\ adapters = <<>>
    /\ fset = "S1"
    /\ fidx = 1
    /\ flog = <<>>
    /\ fres = <<>>
    /\ fpc = "idle"
    /\ disc = DiscIdle

NextResolver == FetchCall \/ FetchExhausted

\* _discover_sets for both games, with starters on and off, over every list
\* of loaded adapters
InitDiscover ==
    /\ adapters \in AdapterLists
    /\ fset = "S1"
    /\ fidx = 1
    /\ flog = <<>>
    /\ fres = <<>>
    /\ fpc = "idle"
    /\ \E g \in {"onepiece", "mtg"}, b \in BOOLEAN :
         disc = [DiscIdle EXCEPT !.pc = "loop", !.game = g, !.scrape = ScrapeConfig(b)]
    /\ st = NotLoaded
    /\ file = NoFile
    /\ exc = "none"
    /\ savePc = "idle"
    /\ saveCtx = NoSave
    /\ obs = NoObs
    /\ DownloaderIdle
    /\ RunIdle

NextDiscover == DiscCall \/ DiscFinish

SpecDiscover == InitDiscover /\ [][NextDiscover]_vars

SpecResolver == InitResolver /\ [][NextResolver]_vars

\* StateTracker._load on first access, over every file of FileUniverse
InitLoad ==
    /\ ResolverIdle
    /\ st = NotLoaded
    /\ file \in FileUniverse
    /\ exc = "none"
    /\ savePc = "idle"
    /\ saveCtx = NoSave
    /\ obs = NoObs
    /\ DownloaderIdle
    /\ RunIdle

NextLoad == TrkAccess

SpecLoad == InitLoad /\ [][NextLoad]_vars

\* A snapshot an earlier run saved: S1 with c1 scraped and downloaded
OldSnapshot ==
    SerializeState(
        MarkImage(MarkCardScraped(<<>>, "S1", "c1"),
                  "S1", "c1", "success", <<"S1", "c1", "jpg">>, None))

\* The files a tracker is opened on: none, a saved snapshot, text that is no
\* JSON, and a JSON list
StartFiles ==
    {NoFile, JsonFile(OldSnapshot), GarbageFile, JsonFile(TopDoc("list", FALSE, "obj", <<>>))}

\* The StateTracker API called in any order, with process stops
InitTracker ==
    /\ ResolverIdle
    /\ st = NotLoaded
    /\ file \in StartFiles
    /\ exc = "none"
    /\ savePc = "idle"
    /\ saveCtx = NoSave
    /\ obs = NoObs
    /\ DownloaderIdle
    /\ RunIdle

NextTracker ==
    \/ TrkAccess
    \/ TrkMarkCardScraped
    \/ TrkMarkImage
    \/ TrkReset
    \/ TrkDelete
    \/ TrkSaveBegin
    \/ TrkSaveOpen
    \/ TrkSaveWritePart
    \/ TrkSaveClose
    \/ TrkStop

SpecTracker == InitTracker /\ [][NextTracker]_vars

\* download_batch over 1..MaxBatch cards of set S1, any URL each, any of the
\* possible image files already there
InitDL ==
    /\ ResolverIdle
    /\ st = NotLoaded
    /\ file = NoFile
    /\ exc = "none"
    /\ savePc = "idle"
    /\ saveCtx = NoSave
    /\ obs = NoObs
    /\ \E n \in 1..MaxBatch :
         /\ tasks \in {[i \in 1..n |-> NewTask(BatchCard(i), u[i])] : u \in [1..n -> DlUrls]}
         /\ disk \in SUBSET ({ImagePath("S1", BatchCard(i).id, "jpg") : i \in 1..n}
                              \cup {ImagePath("S1", "c1", "png")})
    /\ \E c \in Concurrencies :
         /\ sem = c
         /\ dl = [conc |-> c, pc |-> "running", ok |-> 0, fail |-> 0]
    /\ RunIdle

NextDL == DlStart \/ DlAcquire \/ DlResponse \/ DlWake \/ DlBatchDone

SpecDL == InitDL /\ [][NextDL]_vars

\* The batches in which the cards compete hardest for the pool: one slot, no
\* image on disk yet
InitDLOneSlot ==
    /\ InitDL
    /\ disk = {}
    /\ dl.conc = 1

\* The event loop runs every task that can run, and every request and every
\* sleep ends (requests have a timeout)
SpecDLLive == InitDLOneSlot /\ [][NextDL]_vars /\ WF_vars(NextDL)

\* What a run starts on: nothing; the files of an earlier run; the same with
\* the image lost; a state file that holds a JSON list
Scenarios ==
    { [file |-> NoFile, disk |-> {}, man |-> NoManifests],
      [file |-> JsonFile(OldSnapshot), disk |-> {ImagePath("S1", "c1", "jpg")},
       man |-> OldManifests],
      [file |-> JsonFile(OldSnapshot), disk |-> {}, man |-> OldManifests],
      [file |-> JsonFile(TopDoc("list", FALSE, "obj", <<>>)), disk |-> {},
       man |-> NoManifests] }

\* The set-id allowlists: none, one that keeps S1, one that keeps nothing
Filters == {<<>>, <<"S1">>, <<"S9">>}

\* The configured source lists: one in priority order, one whose file order
\* differs from the priority order and holds a disabled source
SourceTables ==
    { <<SourceConfig("A1", TRUE, 1), SourceConfig("A2", TRUE, 2)>>,
      <<SourceConfig("A1", TRUE, 2), SourceConfig("A3", FALSE, 0), SourceConfig("A2", TRUE, 1)>> }

\* Largest priority a configured source has in the model
MaxPriority == 2

\* Every list of sources with distinct names, each enabled or not, with any
\* priority up to MaxPriority
AllSourceTables ==
    {[i \in 1..Len(l) |-> SourceConfig(l[i], en[i], pr[i])] :
        l \in {x \in SeqsUpTo(AdapterNames, Cardinality(AdapterNames)) :
                  \A i, j \in 1..Len(x) : i # j => x[i] # x[j]},
        en \in [1..Cardinality(AdapterNames) -> BOOLEAN],
        pr \in [1..Cardinality(AdapterNames) -> 1..MaxPriority]}

\* setup() over every source table, followed by teardown() when it raised
InitSources ==
    /\ ResolverIdle
    /\ st = NotLoaded
    /\ file = NoFile
    /\ exc = "none"
    /\ savePc = "idle"
    /\ saveCtx = NoSave
    /\ obs = NoObs
    /\ DownloaderIdle
    /\ pc = "setup"
    /\ cfg \in [game : {"mtg"}, force : {FALSE}, filter : {<<>>}, sources : AllSourceTables]
    /\ allSets = <<>>
    /\ allCards = <<>>
    /\ cur = 1
    /\ batch = NoBatch
    /\ manifests = NoManifests
    /\ run = NoRun(NoFile, NoManifests)

NextSources == RunSetup \/ RunTeardown

SpecSources == InitSources /\ [][NextSources]_vars

\* cli.py 131-141: Scraper(config); setup(); run(force, set_filter); teardown()
Init ==
    /\ ResolverIdle
    /\ st = NotLoaded
    /\ exc = "none"
    /\ savePc = "idle"
    /\ saveCtx = NoSave
    /\ obs = NoObs
    /\ sem = 0
    /\ tasks = <<>>
    /\ dl = [conc |-> 0, pc |-> "idle", ok |-> 0, fail |-> 0]
    /\ \E sc \in Scenarios :
         /\ file = sc.file
         /\ disk = sc.disk
         /\ manifests = sc.man
         /\ run = NoRun(sc.file, sc.man)
    /\ pc = "setup"
    /\ cfg \in [game : {"onepiece", "mtg"}, force : BOOLEAN, filter : Filters,
                sources : SourceTables]
    /\ allSets = <<>>
    /\ allCards = <<>>
    /\ cur = 1
    /\ batch = NoBatch

Next ==
    \/ RunSetup
    \/ RunReset
    \/ RunDiscover
    \/ RunFilter
    \/ RunFetchSet
    \/ RunFetchDone
    \/ RunBatch
    \/ RunRecord
    \/ RunDownloadDone
    \/ RunManifestRoot
    \/ RunManifestSet
    \/ RunManifestDone
    \/ RunSaveBegin
    \/ RunSaveOpen
    \/ RunSaveWritePart
    \/ RunSaveClose
    \/ RunTeardown

Spec == Init /\ [][Next]_vars

-----------------------------------------------------------------------------
(* Claims *)

\* A get_cards call that returned a non-empty list
NonEmptyAnswer(entry) == ~entry.resp.raised /\ entry.resp.cards # <<>>

\* Positions of `l` holding the first card of their id
FirstPositions(l) == {j \in 1..Len(l) : \A k \in 1..(j - 1) : l[k].id # l[j].id}

\* r is l with every card but the first of each id removed, order kept
IsFirstOccurrenceDedup(r, l) ==
    LET firsts == FirstPositions(l)
        nth(i) == CHOOSE j \in firsts : Cardinality({k \in firsts : k <= j}) = i
    IN /\ Len(r) = Cardinality(firsts)
       /\ \A i \in 1..Len(r) : r[i] = l[nth(i)]

\* C1: fetch(setId) returns exactly the first-occurrence deduplication (order
\* kept, card ids unique) of the list of the highest-priority adapter whose
\* get_cards returned a non-empty list, and no adapter of lower priority than
\* that one is ever called for the set.
C1_FirstNonEmptyWins ==
    /\ \A i \in 1..Len(flog) :
         /\ flog[i].adapter = adapters[i]
         /\ i < Len(flog) => ~NonEmptyAnswer(flog[i])
    /\ (fpc = "done" /\ \E i \in 1..Len(flog) : NonEmptyAnswer(flog[i])) =>
         LET w == CHOOSE i \in 1..Len(flog) : NonEmptyAnswer(flog[i])
         IN /\ w = Len(flog)
            /\ IsFirstOccurrenceDedup(fres, flog[w].resp.cards)
            /\ \A i, j \in 1..Len(fres) : i # j => fres[i].id # fres[j].id

\* C1 witness: A1 answered [X, X, Y], a second adapter is loaded and was never
\* called, and the result is [X (first record), Y].
C1_Witness ==
    /\ fpc = "done"
    /\ Len(adapters) >= 2
    /\ Len(flog) = 1
    /\ flog[1].resp.cards = << [id |-> "X", name |-> "x-first"],
                               [id |-> "X", name |-> "x-other"],
                               [id |-> "Y", name |-> "y"] >>
    /\ fres = << [id |-> "X", name |-> "x-first"], [id |-> "Y", name |-> "y"] >>

\* C2: an adapter that raises is treated like one that returned an empty list
\* (the loop moves to the next adapter in priority order, nothing is returned
\* yet), and when every adapter raised or returned empty the call returns the
\* empty list after having tried each adapter once.
C2_RaiseIsEmptyFallback ==
    /\ fpc = "loop" =>
         /\ fidx = Len(flog) + 1
         /\ fres = <<>>
         /\ \A i \in 1..Len(flog) : ~NonEmptyAnswer(flog[i])
    /\ (fpc = "done" /\ \A i \in 1..Len(flog) : ~NonEmptyAnswer(flog[i])) =>
         /\ fres = <<>>
         /\ Len(flog) = Len(adapters)
         /\ \A i \in 1..Len(flog) : flog[i].adapter = adapters[i]
    /\ \A i \in 1..Len(flog) :
         (fpc = "done" /\ flog[i].resp.raised /\ i < Len(adapters)) =>
             /\ Len(flog) > i
             /\ flog[i + 1].adapter = adapters[i + 1]

\* C2 witness: the first adapter raised, the second returned an empty list,
\* nothing else is loaded and the call returned [].
C2_Witness ==
    /\ fpc = "done"
    /\ Len(adapters) = 2
    /\ Len(flog) = 2
    /\ flog[1].resp.raised
    /\ ~flog[2].resp.raised /\ flog[2].resp.cards = <<>>
    /\ fres = <<>>

\* C8 (as claimed): at every point of save(), and so whenever the process
\* stops inside it, the file holds the complete snapshot it held before the
\* call or the complete new one, never an empty or partial document.
C8_SaveAtomic ==
    (savePc # "idle" \/ obs.op = "stop-in-save") =>
        file \in {saveCtx.before, JsonFile(saveCtx.data)}

\* What the queries of a tracker answer now (they go through tracker.state)
View == StateOf(st, file)

\* C9: the file changes only in a step of save() or delete(); and once reset()
\* was called the tracker holds a loaded state and answers is_card_scraped /
\* is_image_downloaded from the marks made since, never from the snapshot
\* that is still on disk.
C9_FileOnlyViaSave ==
    /\ [][file' # file => obs'.op \in {"save", "delete"}]_vars
    /\ [](obs.wasReset =>
            /\ st.loaded
            /\ View.exc = "none"
            /\ \A s \in TrkSets, c \in TrkCards :
                 /\ IsCardScraped(View.st.sets, s, c) <=> <<s, c>> \in obs.marks
                 /\ IsImageDownloaded(View.st.sets, s, c) => obs.imarks[<<s, c>>] = "success")

\* C9 witness: the tracker saved a snapshot with scraped cards of its own and
\* was then reset, so the file still holds them while the state is empty.
C9_Witness ==
    /\ obs.op = "reset"
    /\ file.kind = "json"
    /\ file \notin StartFiles
    /\ \E i \in 1..Len(file.doc.sets) : file.doc.sets[i].card_ids # <<>>
    /\ st = EmptyState

\* C10: for a card with a non-empty URL and no destination file, the attempts
\* are numbered 1..3; the sleep after failed attempt k is 2^(k-1) seconds (1,
\* then 2) and comes before attempt k+1; when all fail there were exactly 3
\* requests and the error names 3 attempts; when an attempt succeeds the task
\* ends at once with success, with no request or sleep after it.
C10_RetryBackoff ==
    \A i \in 1..Len(tasks) :
        LET t == tasks[i]
        IN (t.pc # "new" /\ t.url # <<>> /\ ~t.existed) =>
             /\ t.requests <= 3
             /\ Len(t.sleeps) <= 2
             /\ t.sleeps = SubSeq(<<1, 2>>, 1, Len(t.sleeps))
             /\ t.pc = "request" => t.requests = Len(t.sleeps) + 1 /\ t.failed = Len(t.sleeps)
             /\ t.pc = "sleeping" => t.requests = Len(t.sleeps) /\ t.failed = Len(t.sleeps)
             /\ (t.pc = "done" /\ ~t.ok) =>
                    /\ t.requests = 3
                    /\ t.failed = 3
                    /\ t.sleeps = <<1, 2>>
                    /\ t.err = [msg |-> "Failed after n attempts", n |-> 3]
             /\ (t.pc = "done" /\ t.ok) =>
                    /\ t.requests = t.failed + 1
                    /\ Len(t.sleeps) = t.failed
                    /\ t.err = NoError

\* C10 witness: a download whose three attempts all failed.
C10_Witness ==
    \E i \in 1..Len(tasks) :
        /\ tasks[i].pc = "done"
        /\ tasks[i].url # <<>>
        /\ ~tasks[i].existed
        /\ ~tasks[i].ok
        /\ tasks[i].requests = 3
        /\ tasks[i].sleeps = <<1, 2>>

\* C7 (as claimed): whatever the state file holds at first access, loading
\* never raises.
C7_LoadNeverRaises == exc = "none"

\* C3 (as claimed): once a set's batch is recorded, a card of the pending
\* subset has image status success exactly when the file the downloader
\* writes for it (set id, card id, extension guessed from its URL) is on disk,
\* and failed otherwise.
C3_StatusMatchesDestination ==
    batch.recorded =>
        \A i \in 1..Len(batch.cards) :
            LET c == batch.cards[i]
                img == Lookup(Lookup(st.sets, batch.set_id).images, c.id)
            IN img.status = IF Dest(c, batch.urls[i]) \in disk THEN "success" ELSE "failed"

\* C4 (as claimed): when the allowlist filter leaves no set, the run returns
\* at once: save() is not called, and no manifest and not the state file is
\* touched.
C4_EmptyFilterReturnsEarly ==
    (run.filtered /\ allSets = <<>>) =>
        /\ run.saves = 0
        /\ manifests = run.man0
        /\ file = run.file0

\* C5: when an exception escapes the Discover, Fetch, Download or Manifest
\* stage, save() is never called in that run and the state file is what it
\* was when the run started, in force mode too.
C5_NoSaveAfterEscape ==
    (run.exc # "none" /\ run.stage \in {"Discover", "Fetch", "Download", "Manifest"}) =>
        /\ run.saves = 0
        /\ savePc = "idle"
        /\ file = run.file0

\* C5 witness: a force-mode run over an earlier snapshot ended by an exception
\* out of the Manifest stage, with an in-memory state that differs from the
\* file.
C5_Witness ==
    /\ pc = "done"
    /\ cfg.force
    /\ run.stage = "Manifest"
    /\ run.file0 = JsonFile(OldSnapshot)
    /\ st.loaded
    /\ SerializeState(st.sets) # OldSnapshot
    /\ file = JsonFile(OldSnapshot)

\* C6 (as claimed): no failure raised by an adapter operation propagates out
\* of run() or teardown().
C6_AdapterFailuresNeverEscape == run.origin # "adapter"

\* The tasks inside their attempt sequence: a request in flight or a backoff
\* sleep
InAttempts == {i \in 1..Len(tasks) : tasks[i].pc \in {"request", "sleeping"}}

\* C11: during download_batch at most `concurrency` cards are inside their
\* attempt sequence at any moment; a slot is held exactly by those cards, it
\* is released on success and on exhausted retries, and after the batch all
\* slots are free again.
C11_ConcurrencyBound ==
    /\ Cardinality(InAttempts) <= dl.conc
    /\ sem = dl.conc - Cardinality(InAttempts)
    /\ \A i \in 1..Len(tasks) : tasks[i].holds <=> i \in InAttempts
    /\ dl.pc = "done" => sem = dl.conc

\* C11 witness: a finished batch of more cards than slots in which every card
\* made requests, one of them exhausted its retries, and all slots are free.
C11_Witness ==
    /\ dl.pc = "done"
    /\ dl.conc < Len(tasks)
    /\ sem = dl.conc
    /\ \A i \in 1..Len(tasks) : tasks[i].requests > 0
    /\ \E i \in 1..Len(tasks) : ~tasks[i].ok /\ tasks[i].requests = MAX_RETRIES
    /\ \E i \in 1..Len(tasks) : tasks[i].ok

\* What a card's own URL, destination and responses make of it
OwnOutcome(t) == ~NoUrl(t.url) /\ (t.existed \/ t.failed < MAX_RETRIES)

C13_CallbackOncePerCard ==
    /\ \A i \in 1..Len(tasks) :
         tasks[i].callbacks = IF tasks[i].pc = "done" THEN 1 ELSE 0
    /\ dl.pc = "done" => \A i \in 1..Len(tasks) : tasks[i].callbacks = 1

\* C13 witness: a finished batch with a card that exhausted its retries and a
\* card that was skipped or had no URL, each reported once.
C13_Witness ==
    /\ dl.pc = "done"
    /\ \E i, j \in 1..Len(tasks) :
         /\ ~tasks[i].ok /\ tasks[i].requests = MAX_RETRIES /\ tasks[i].callbacks = 1
         /\ tasks[j].requests = 0 /\ tasks[j].callbacks = 1

\* The file download_card_image would write for a task
DestOf(t) == ImagePath(t.card.set_id, t.card.id, UrlExtension(t.url))

\* C14: download_card_image makes a request only when the URL is non-empty
\* and the destination file does not exist; an empty URL is an immediate
\* failure and an existing destination an immediate success, both with no
\* request, no backoff sleep, no retry and no slot taken.
C14_SkipWithoutRequest ==
    /\ [][\A i \in 1..Len(tasks) :
            (tasks[i].pc = "new" /\ tasks'[i].pc # "new") =>
                /\ tasks'[i].existed <=> DestOf(tasks[i]) \in disk
                /\ (tasks[i].url = <<>> \/ DestOf(tasks[i]) \in disk) =>
                       tasks'[i].pc = "done" /\ sem' = sem /\ disk' = disk
                /\ (tasks[i].url # <<>> /\ DestOf(tasks[i]) \notin disk) =>
                       tasks'[i].pc \in {"request", "waiting"}]_vars
    /\ [](\A i \in 1..Len(tasks) :
            LET t == tasks[i]
            IN (t.pc # "new" /\ (t.url = <<>> \/ t.existed)) =>
                 /\ t.pc = "done"
                 /\ t.requests = 0
                 /\ t.sleeps = <<>>
                 /\ t.attempt = 0
                 /\ ~t.holds
                 /\ t.ok <=> t.url # <<>>
                 /\ t.err = IF t.url = <<>> THEN NoUrlError ELSE NoError)

\* C14 witness: a card without URL has failed and a card whose png file was
\* already there has succeeded, neither with a request.
C14_Witness ==
    \E i, j \in 1..Len(tasks) :
        /\ tasks[i].pc = "done" /\ tasks[i].url = <<>> /\ ~tasks[i].ok
        /\ tasks[i].requests = 0
        /\ tasks[j].pc = "done" /\ tasks[j].url = UrlPngQuery /\ tasks[j].existed
        /\ tasks[j].ok /\ tasks[j].requests = 0

(* Set discovery: Scraper._discover_sets *)

\* Position of a set id in ascending string order
Rank(id) == CHOOSE i \in 1..Len(IdOrder) : IdOrder[i] = id

\* The calls of list_sets so far that answered with a list holding `id`
Listers(id) ==
    {i \in 1..Len(disc.log) :
        /\ ~disc.log[i].resp.raised
        /\ \E j \in 1..Len(disc.log[i].resp.sets) : disc.log[i].resp.sets[j].id = id}

FirstLister(id) == CHOOSE i \in Listers(id) : \A k \in Listers(id) : i <= k

\* C15: when _discover_sets returns, its list holds each set id at most once
\* in ascending order of id, holds every id listed by an adapter that did not
\* raise, and carries for each such id the entry of the first adapter of the
\* priority order that listed it
C15_MergedSortedFirstWins ==
    (disc.pc = "done" /\ disc.exc = "none") =>
        /\ \A i, j \in 1..Len(disc.out) : i < j => Rank(disc.out[i].id) < Rank(disc.out[j].id)
        /\ \A i \in 1..Len(disc.log) :
             ~disc.log[i].resp.raised =>
                 \A j \in 1..Len(disc.log[i].resp.sets) :
                     \E k \in 1..Len(disc.out) : disc.out[k].id = disc.log[i].resp.sets[j].id
        /\ \A k \in 1..Len(disc.out) :
             Listers(disc.out[k].id) # {} =>
                 disc.out[k].name = disc.log[FirstLister(disc.out[k].id)].adapter

\* A returned list of two sets, one of them listed by two adapters, met in
\* descending order, with a raising adapter among the three
C15_Witness ==
    /\ disc.pc = "done"
    /\ disc.exc = "none"
    /\ Len(disc.log) = 3
    /\ Len(disc.out) = 2
    /\ Cardinality(Listers("S1")) = 2
    /\ \E i \in 1..3 : disc.log[i].resp.raised
    /\ \E i \in 1..3 : ~disc.log[i].resp.raised /\ disc.log[i].resp.sets[1].id = "S2"

\* C16: list_sets is called once on every loaded adapter in the order of the
\* adapter list, whatever the earlier adapters did; a raising adapter leaves
\* the merged map as it was, and no adapter exception leaves _discover_sets
C16_EveryAdapterAskedOnce ==
    /\ [](/\ Len(disc.log) <= Len(adapters)
          /\ \A i \in 1..Len(disc.log) : disc.log[i].adapter = adapters[i]
          /\ disc.pc = "done" => Len(disc.log) = Len(adapters)
          /\ disc.exc # "AdapterError"
          /\ \A k \in 1..Len(disc.all) :
               disc.all[k].name = "synthetic" \/ Listers(disc.all[k].id) # {})
    /\ [][(Len(disc'.log) > Len(disc.log) /\ disc'.log[Len(disc'.log)].resp.raised)
            => disc'.all = disc.all]_vars

\* Three adapters were asked although the first two raised
C16_Witness ==
    /\ disc.pc = "done"
    /\ Len(disc.log) = 3
    /\ disc.log[1].resp.raised
    /\ disc.log[2].resp.raised
    /\ ~disc.log[3].resp.raised
    /\ Len(disc.log[3].resp.sets) > 0

\* C17: for onepiece, _discover_sets returns the merged, sorted list whatever
\* the synthetic-set flags are
C17_ReturnsInEveryFlagCombination ==
    (disc.pc = "done" /\ disc.game = "onepiece") => disc.exc = "none"

(* Adapter loading: Scraper.setup under cli._run_scrape *)

SetupRaised == run.stage = "Setup" /\ run.exc = "RuntimeError"

\* The configured source of the given name
SourceOf(name) ==
    cfg.sources[CHOOSE i \in 1..Len(cfg.sources) : cfg.sources[i].name = name]

\* C18: setup() raises exactly when no adapter was instantiated; the loaded
\* adapters are enabled sources, each once, in ascending order of priority;
\* and after setup() has raised nothing is discovered, fetched, downloaded,
\* written or saved, the only step left being teardown
C18_SetupFatalOnlyWithoutAdapters ==
    /\ pc \notin {"idle", "setup"} => (SetupRaised <=> adapters = <<>>)
    /\ \A i \in 1..Len(adapters) :
         /\ \E k \in 1..Len(cfg.sources) : cfg.sources[k].name = adapters[i]
         /\ SourceOf(adapters[i]).enabled
    /\ \A i, j \in 1..Len(adapters) :
         i < j => /\ adapters[i] # adapters[j]
                  /\ SourceOf(adapters[i]).priority <= SourceOf(adapters[j]).priority
    /\ SetupRaised =>
         /\ pc \in {"teardown", "done"}
         /\ allSets = <<>>
         /\ allCards = <<>>
         /\ batch = NoBatch
         /\ tasks = <<>>
         /\ dl.pc = "idle"
         /\ st = NotLoaded
         /\ manifests = run.man0
         /\ file = run.file0
         /\ run.saves = 0
         /\ savePc = "idle"

\* setup() has raised over a configuration with enabled sources, and teardown
\* has run
C18_Witness ==
    /\ SetupRaised
    /\ pc = "done"
    /\ \E k \in 1..Len(cfg.sources) : cfg.sources[k].enabled

(* End to end: Scraper.run *)

\* The run passed the filter with at least one set, every one of these sets
\* yielded cards, every card has an image URL, no image request failed, and no
\* exception left setup() or run()
C19_Premise ==
    /\ run.filtered
    /\ allSets # <<>>
    /\ \A i \in 1..Len(allSets) : HasKey(allCards, allSets[i].id)
    /\ \A i \in 1..Len(allCards) :
         \A j \in 1..Len(allCards[i].cards) : allCards[i].cards[j].image_url # <<>>
    /\ ~run.reqFailed
    /\ run.exc = "none"

\* save() was reached, the manifests hold the sets and their cards, and the
\* saved file marks every fetched card as scraped with image status success
C19_Outcome ==
    /\ run.saves = 1
    /\ manifests.root = NewManifest(IdsOf(allSets))
    /\ \A i \in 1..Len(allSets) :
         manifests.set[allSets[i].id] = NewManifest(IdsOf(Lookup(allCards, allSets[i].id).cards))
    /\ LET saved == Load(file)
       IN /\ saved.exc = "none"
          /\ \A i \in 1..Len(allCards) :
               \A j \in 1..Len(allCards[i].cards) :
                   /\ IsCardScraped(saved.sets, allCards[i].key, allCards[i].cards[j].id)
                   /\ IsImageDownloaded(saved.sets, allCards[i].key, allCards[i].cards[j].id)

\* C19: a run in which every filtered set yielded cards and every image
\* request succeeded has, once it is over, written the manifests and saved a
\* state marking every fetched card scraped and every image a success
C19_EndToEnd == (pc = "done" /\ C19_Premise) => C19_Outcome

(* Persistence round trip: StateTracker.save, then a new tracker's load *)

\* C20: once save() has returned, a new tracker loading the file gets the
\* saved state: the same sets in the same order, each with the same card-id
\* list, last_scraped value and image entries (status, path, error); and the
\* same holds of any loaded state were it saved
C20_SaveLoadRoundTrip ==
    /\ (obs.op = "save" /\ savePc = "idle" /\ exc = "none") =>
           Load(file) = [exc |-> "none", sets |-> st.sets]
    /\ st.loaded =>
           Load(JsonFile(SerializeState(st.sets))) = [exc |-> "none", sets |-> st.sets]

\* save() has returned over a state holding a scraped card and a failed image
\* with its error text
C20_Witness ==
    /\ obs.op = "save"
    /\ savePc = "idle"
    /\ exc = "none"
    /\ file = JsonFile(SerializeState(st.sets))
    /\ \E i \in 1..Len(st.sets) :
         /\ st.sets[i].card_ids # <<>>
         /\ \E j \in 1..Len(st.sets[i].images) :
              /\ st.sets[i].images[j].status = "failed"
              /\ st.sets[i].images[j].error # None

(* Tracker marks: ScrapeState.mark_card_scraped, mark_image *)

\* The loaded state was built from the empty one by the marks in obs: the
\* tracker was reset, or its file has been absent all along
StartedEmpty == st.loaded /\ (obs.wasReset \/ file = NoFile)

IsPrefix(a, b) == Len(a) <= Len(b) /\ \A i \in 1..Len(a) : a[i] = b[i]

\* C21: in a state built from the empty one, the card-id list of every set
\* holds each marked id once and nothing else; a mark step only appends to
\* the lists, so their order is that of the first markings; and marking a
\* card that is already marked leaves the whole state as it is
C21_MarkCardScrapedIdempotent ==
    /\ [](StartedEmpty =>
            /\ \A i \in 1..Len(st.sets) :
                 /\ \A j, k \in 1..Len(st.sets[i].card_ids) :
                      j # k => st.sets[i].card_ids[j] # st.sets[i].card_ids[k]
                 /\ \A j \in 1..Len(st.sets[i].card_ids) :
                      <<st.sets[i].key, st.sets[i].card_ids[j]>> \in obs.marks
            /\ \A m \in obs.marks : IsCardScraped(st.sets, m[1], m[2]))
    /\ [](st.loaded =>
            \A s \in TrkSets, c \in TrkCards :
                IsCardScraped(st.sets, s, c) => MarkCardScraped(st.sets, s, c) = st.sets)
    /\ [][(st.loaded /\ obs'.op \in {"mark_card_scraped", "mark_image"}) =>
            \A i \in 1..Len(st.sets) :
                /\ i <= Len(st'.sets)
                /\ st'.sets[i].key = st.sets[i].key
                /\ IsPrefix(st.sets[i].card_ids, st'.sets[i].card_ids)]_vars

\* Three marks on a tracker without a file left two ids in one set, the later
\* one second
C21_Witness ==
    /\ StartedEmpty
    /\ ~obs.wasReset
    /\ obs.op = "mark_card_scraped"
    /\ obs.n = 3
    /\ obs.marks = {<<"S1", "c2">>, <<"S1", "c1">>}
    /\ Len(st.sets) = 1
    /\ st.sets[1].card_ids = <<"c2", "c1">>

\* The entry mark_image(s, c, ...) writes when called with the given status
WrittenEntries(s, c, status) ==
    {ImageStatus(c, a.status, a.path, a.error) : a \in {x \in ImageArgs(s, c) : x.status = status}}

\* C22: in a state built from the empty one, is_image_downloaded(s, c) holds
\* exactly when the latest mark_image for (s, c) had status success; a card
\* never marked has no entry, and the entry of a marked card is the one its
\* latest mark_image wrote, path and error included
C22_LastImageWriteWins ==
    StartedEmpty =>
        \A s \in TrkSets, c \in TrkCards :
            /\ IsImageDownloaded(st.sets, s, c) <=> obs.imarks[<<s, c>>] = "success"
            /\ obs.imarks[<<s, c>>] = None =>
                   ~(HasKey(st.sets, s) /\ HasKey(Lookup(st.sets, s).images, c))
            /\ obs.imarks[<<s, c>>] # None =>
                   /\ HasKey(st.sets, s)
                   /\ HasKey(Lookup(st.sets, s).images, c)
                   /\ Lookup(Lookup(st.sets, s).images, c) \in WrittenEntries(s, c, obs.imarks[<<s, c>>])

\* A mark_image with status failed has just replaced a success entry
C22_Witness ==
    /\ StartedEmpty
    /\ obs.op = "mark_image"
    /\ obs.overwrote = "success"
    /\ \E s \in TrkSets, c \in TrkCards :
         /\ obs.imarks[<<s, c>>] = "failed"
         /\ HasKey(st.sets, s)
         /\ HasKey(Lookup(st.sets, s).images, c)
         /\ Lookup(Lookup(st.sets, s).images, c).path = NoPath
         /\ \A t \in TrkSets, d \in TrkCards : <<t, d>> # <<s, c>> => obs.imarks[<<t, d>>] = None

(* Adapter order: GameConfig.enabled_sources as used by Scraper.setup *)

\* Position of the named source in the configured list
DeclaredAt(name) == CHOOSE i \in 1..Len(cfg.sources) : cfg.sources[i].name = name

\* C23: enabled_sources holds exactly the enabled sources, each once, in
\* ascending priority with equal priorities in declaration order; and the
\* adapters setup() leaves are the loadable ones among them in that order
C23_EnabledSourcesStableOrder ==
    LET e == EnabledSources(cfg.sources)
    IN /\ \A i \in 1..Len(e) : e[i].enabled /\ cfg.sources[DeclaredAt(e[i].name)] = e[i]
       /\ \A k \in 1..Len(cfg.sources) :
            cfg.sources[k].enabled => \E i \in 1..Len(e) : e[i] = cfg.sources[k]
       /\ \A i, j \in 1..Len(e) :
            i < j => \/ e[i].priority < e[j].priority
                     \/ /\ e[i].priority = e[j].priority
                        /\ DeclaredAt(e[i].name) < DeclaredAt(e[j].name)
       /\ pc \notin {"idle", "setup"} =>
            adapters = SelectSeq([i \in 1..Len(e) |-> e[i].name], LAMBDA a : a \in Range(adapters))

\* setup() has loaded three adapters: the first two have the same priority,
\* the third was declared first
C23_Witness ==
    /\ pc = "reset"
    /\ Len(adapters) = 3
    /\ SourceOf(adapters[1]).priority = SourceOf(adapters[2]).priority
    /\ SourceOf(adapters[2]).priority < SourceOf(adapters[3]).priority
    /\ DeclaredAt(adapters[3]) = 1
    /\ adapters[1] = "A3"

(* Stage order: Scraper.run *)

\* C24: the stages of a run follow one another.  Image files appear only in
\* the download loop, which starts when the fetch loop has gone through every
\* filtered set and after which no card list changes; a loaded tracker state
\* changes after the fetch stage only by recording a batch that has fully
\* resolved; manifests are written only when every batch is recorded and the
\* download loop has gone through every set; the state file changes only
\* inside the one save(), which starts when every manifest is written
C24_StagesSequential ==
    /\ [][/\ disk' # disk => (pc = "download" /\ pc' = "record")
          /\ (pc = "fetch" /\ pc' = "download") => cur > Len(allSets)
          /\ allCards' # allCards => pc = "fetch"]_vars
    /\ [][(st.loaded /\ st' # st /\ pc \notin {"idle", "setup", "reset", "fetch"}) =>
            /\ pc = "record"
            /\ disk' = disk
            /\ ~batch.recorded
            /\ batch.ok + batch.fail = Len(batch.cards)
            /\ batch.set_id = allCards[cur].key]_vars
    /\ [][/\ manifests' # manifests =>
               /\ pc \in {"manifest_root", "manifest_set"}
               /\ batch = NoBatch \/ batch.recorded
          /\ (pc = "download" /\ pc' = "manifest_root") => cur > Len(allCards)]_vars
    /\ [][/\ file' # file =>
               /\ pc = "save"
               /\ run.saves = 1
               /\ manifests.root = NewManifest(IdsOf(SetsWithCards(allSets, allCards)))
               /\ \A i \in 1..Len(allCards) :
                    HasKey(allSets, allCards[i].key) =>
                        manifests.set[allCards[i].key] = NewManifest(IdsOf(allCards[i].cards))
          /\ (pc = "manifest_set" /\ pc' = "save") =>
               cur > Len(SetsWithCards(allSets, allCards))]_vars
    /\ [](run.saves <= 1)

\* A finished run over two sets that fetched, downloaded, wrote the manifests
\* and saved
C24_Witness ==
    /\ pc = "done"
    /\ run.exc = "none"
    /\ run.saves = 1
    /\ Len(allCards) = 2
    /\ batch.recorded
    /\ manifests.root = NewManifest(<<"S1", "S2">>)
    /\ file.kind = "json"
    /\ file # run.file0
    /\ \E p \in disk : p[1] = "S1"

(* Download stage: the pending subset *)

\* The image entries stored for card c of set s: one or none
StoredImage(sets, s, c) ==
    IF HasKey(sets, s) /\ HasKey(Lookup(sets, s).images, c)
    THEN {Lookup(Lookup(sets, s).images, c)}
    ELSE {}

\* C25: when the download loop handles a set, the batch it hands to the
\* downloader holds, in a non-force run, exactly the cards whose stored image
\* status is not success, and in a force run every card of the set; a set
\* with nothing pending gets no batch and no file changes; and in a non-force
\* run the entry of a card stored as success stays as it is through the
\* Download stage, whether or not its file is on disk
C25_PendingSubset ==
    /\ [][(pc = "download" /\ cur <= Len(allCards) /\ pc' \in {"download", "record"}) =>
            LET set_id == allCards[cur].key
                cards == allCards[cur].cards
                stored == {i \in 1..Len(cards) :
                             \E e \in StoredImage(st.sets, set_id, cards[i].id) :
                                 e.status = "success"}
                pending == IF cfg.force THEN 1..Len(cards) ELSE (1..Len(cards)) \ stored
            IN IF pending = {}
               THEN pc' = "download" /\ cur' = cur + 1 /\ batch' = batch /\ disk' = disk
               ELSE /\ pc' = "record"
                    /\ batch'.set_id = set_id
                    /\ batch'.cards = SelectSeq(cards, LAMBDA c : \E i \in pending : cards[i] = c)]_vars
    /\ [][(pc \in {"download", "record"} /\ ~cfg.force) =>
            \A i \in 1..Len(st.sets) :
                \A j \in 1..Len(st.sets[i].images) :
                    st.sets[i].images[j].status = "success" =>
                        StoredImage(st'.sets, st.sets[i].key, st.sets[i].images[j].key)
                            = {st.sets[i].images[j]}]_vars

\* A non-force run has ended whose S1 batch held only c2: c1 was stored as
\* success, its file is not on disk, and its entry is saved as it was
C25_Witness ==
    /\ pc = "done"
    /\ ~cfg.force
    /\ run.exc = "none"
    /\ run.saves = 1
    /\ batch.set_id = "S1"
    /\ IdsOf(batch.cards) = <<"c2">>
    /\ IdsOf(Lookup(allCards, "S1").cards) = <<"c1", "c2">>
    /\ ImagePath("S1", "c1", "jpg") \notin disk
    /\ StoredImage(Load(file).sets, "S1", "c1")
         = {ImageStatus("c1", "success", ImagePath("S1", "c1", "jpg"), None)}

(* Fetch stage: what one iteration does to the tracker *)

\* The stored entries of set s: one or none
StoredSet(sets, s) == IF HasKey(sets, s) THEN {Lookup(sets, s)} ELSE {}

\* C26: a completed iteration of the fetch loop over a set with a non-empty
\* card list leaves every card id of the list marked scraped and the set's
\* last_scraped at the time of this run; over a set with an empty result it
\* leaves the tracker untouched: no load, no new entry, the stored entry of
\* the set as it was
C26_FetchStageFrame ==
    [][(pc = "fetch" /\ cur <= Len(allSets) /\ cur' = cur + 1) =>
        LET set_id == allSets[cur].id
        IN IF HasKey(allCards', set_id)
           THEN /\ Lookup(allCards', set_id).cards # <<>>
                /\ st'.loaded
                /\ \A j \in 1..Len(Lookup(allCards', set_id).cards) :
                     IsCardScraped(st'.sets, set_id, Lookup(allCards', set_id).cards[j].id)
                /\ \A e \in StoredSet(st'.sets, set_id) : e.last_scraped = Now
           ELSE /\ st' = st
                /\ file' = file
                /\ allCards' = allCards]_vars

\* The fetch loop has gone through S1, stored before with c1 only and now
\* holding c1 and c2 at the time of this run, and through S2, which yielded
\* nothing and has no entry
C26_Witness ==
    /\ pc = "fetch"
    /\ cur = 3
    /\ ~cfg.force
    /\ file = JsonFile(OldSnapshot)
    /\ IdsOf(allSets) = <<"S1", "S2">>
    /\ Keys(allCards) = {"S1"}
    /\ st.loaded
    /\ Keys(st.sets) = {"S1"}
    /\ Lookup(st.sets, "S1").card_ids = <<"c1", "c2">>
    /\ Lookup(st.sets, "S1").last_scraped = Now

(* Manifest emission *)

\* run() went through all its stages and returned
RunCompleted == pc = "done" /\ run.exc = "none" /\ run.saves = 1

\* The filtered sets whose fetch returned at least one card
ProducingSets == {allSets[i].id : i \in {k \in 1..Len(allSets) : HasKey(allCards, allSets[k].id)}}

\* C27: after a completed run, the set manifests written by it are those of
\* the filtered sets whose fetch returned cards, each listing that set's
\* cards once each in fetch order; the root manifest lists exactly these sets
\* in ascending order of id; a set without cards is in neither
C27_ManifestEmission ==
    RunCompleted =>
        /\ manifests.root.state = "new"
        /\ Range(manifests.root.items) = ProducingSets
        /\ \A i, j \in 1..Len(manifests.root.items) :
             i < j => Rank(manifests.root.items[i]) < Rank(manifests.root.items[j])
        /\ \A s \in SetIds :
             /\ manifests.set[s].state = "new" <=> s \in ProducingSets
             /\ s \in ProducingSets =>
                  /\ manifests.set[s].items = IdsOf(Lookup(allCards, s).cards)
                  /\ manifests.set[s].items # <<>>
                  /\ \A i, j \in 1..Len(manifests.set[s].items) :
                       i # j => manifests.set[s].items[i] # manifests.set[s].items[j]

\* A completed run over S1 and S2 in which S2 yielded no card and S1 a list
\* with a repeated id: only S1 has a manifest, with two cards, and the
\* manifests of an earlier run were there before
C27_Witness ==
    /\ RunCompleted
    /\ IdsOf(allSets) = <<"S1", "S2">>
    /\ ProducingSets = {"S1"}
    /\ manifests.root = NewManifest(<<"S1">>)
    /\ manifests.set["S1"] = NewManifest(<<"c1", "c2">>)
    /\ manifests.set["S2"].state = "absent"
    /\ run.man0 = OldManifests

(* What a run leaves in the state file *)

C29_ForceSavesOnlyThisRun ==
    /\ (cfg.force /\ pc \notin {"idle", "setup", "reset"} /\ ~SetupRaised) =>
           /\ st.loaded
           /\ exc = "none"
           /\ run.origin # "state"
    /\ (RunCompleted /\ cfg.force) =>
           /\ Load(file).exc = "none"
           /\ Keys(Load(file).sets) = ProducingSets
           /\ \A s \in ProducingSets :
                Lookup(Load(file).sets, s).card_ids = IdsOf(Lookup(allCards, s).cards)

\* A completed force run started on a snapshot holding S1: only S2 yielded
\* cards, and the saved file holds S2 alone
C29_Witness ==
    /\ RunCompleted
    /\ cfg.force
    /\ run.file0 = JsonFile(OldSnapshot)
    /\ IdsOf(allSets) = <<"S1", "S2">>
    /\ ProducingSets = {"S2"}
    /\ Keys(Load(file).sets) = {"S2"}

(* Files left by download_card_image *)

\* C30: when a call of download_card_image for a card with a URL is over, its
\* destination file is there only if it was there before or a request was
\* made; a call that returned failure has not created the file; and a call
\* that returned success has left the file in place
C30_FileOnlyOnSuccess ==
    \A i \in 1..Len(tasks) :
        (tasks[i].pc = "done" /\ ~NoUrl(tasks[i].url)) =>
            /\ Dest(tasks[i].card, tasks[i].url) \in disk =>
                   (tasks[i].existed \/ tasks[i].requests > 0)
            /\ ~tasks[i].ok =>
                   (Dest(tasks[i].card, tasks[i].url) \in disk => tasks[i].existed)
            /\ tasks[i].ok => Dest(tasks[i].card, tasks[i].url) \in disk

=============================================================================
